---- MODULE Spec2Model ----
(***************************************************************************)
(* Model of the invoice generator's layout engine, totals rules and        *)
(* currency service (internal/services/pdf/renderer.go, the currency       *)
(* service, main.go).                                                      *)
(*                                                                         *)
(* Conventions                                                             *)
(*   - A string is a sequence of characters; a character is a one-element  *)
(*     TLA+ string naming the rune ("snow" names a rune of three UTF-8     *)
(*     bytes for which the font has no glyph).                             *)
(*   - float64 amounts are fixed-point integers in units of 1/10000; a     *)
(*     rate (price) is given in hundredths, a tax or discount rate in      *)
(*     percent, so every product the code forms is exact.                  *)
(*   - The gopdf cursor is the record [x, y]; every Cell call is appended  *)
(*     to the page's list of drawn cells with the position it was made at. *)
(***************************************************************************)
EXTENDS Integers, Sequences, FiniteSets, TLC

\* Bounds of the model.
MaxTextLen == 5
MaxShortLen == 3
MaxCalls == 3
MaxItems == 3
MaxParallel == 2
ManyItems == 40

VARIABLES
  pdf,            \* the gopdf page: cursor and drawn cells
  pc,             \* the next step of the operation under way
  invoice,        \* the invoice being rendered
  row,            \* index of the next item row
  sum,       \* the subtotal accumulated by the item loop
  fullInvoiceId,  \* id + idSuffix
  out,            \* what Render wrote and the error it returned
  assets,         \* the font files and the logo file on disk
  output,         \* the --output flag of the generate command
  other,          \* a second Render call running at the same time
  call,           \* the last call of writeMultilineText: inputs and lines
  first,          \* the reference call of writeMultilineText
  ncalls,         \* number of calls of writeMultilineText made
  symbols,        \* the currency service's symbol table
  files,          \* the configuration files on disk
  result          \* the last call of a service or function and its result

vars == <<pdf, pc, invoice, row, sum, fullInvoiceId, out, assets, output, other,
          call, first, ncalls,
          symbols, files, result>>

renderVars == <<invoice, row, sum, fullInvoiceId, out, assets, output, other>>
wrapVars == <<call, first, ncalls>>
currencyVars == <<symbols, files, result>>

\* The footer and invoice of a state in which nothing is rendered.
EmptyFooter ==
  [CompanyName |-> <<>>, RegistrationInfo |-> <<>>, ShowRegistration |-> FALSE,
   VatId |-> <<>>, ShowVatId |-> FALSE, Address |-> <<>>, City |-> <<>>,
   Zip |-> <<>>, Phone |-> <<>>, Email |-> <<>>, Website |-> <<>>,
   BankName |-> <<>>, BankIban |-> <<>>, BankBic |-> <<>>]

EmptyInvoice ==
  [Id |-> <<>>, IdSuffix |-> <<>>, Title |-> <<>>, Logo |-> <<>>, From |-> <<>>,
   To |-> <<>>, Date |-> <<>>, Due |-> <<>>, Items |-> <<>>, Quantities |-> <<>>,
   Rates |-> <<>>, Tax |-> 0, TaxExempt |-> FALSE, Discount |-> 0,
   Currency |-> <<>>, Note |-> <<>>, Footer |-> EmptyFooter]

\* Nothing written, no error. names holds the paths an error message names.
NoOutput == [written |-> FALSE, err |-> "none", names |-> {}]

\* An image file as getImageDimension and pdf.Image find it.
NoImage == [kind |-> "none", width |-> 0, height |-> 0]

\* Both font files in place, no logo file.
FontsOk == [regular |-> "ok", bold |-> "ok"]
NoAssets == [fonts |-> FontsOk, logo |-> NoImage]

NoRender ==
  /\ invoice = EmptyInvoice
  /\ row = 0
  /\ sum = 0
  /\ fullInvoiceId = <<>>
  /\ out = NoOutput
  /\ assets = NoAssets

\* The record of a call of writeMultilineText before any call was made.
NoCall == [text |-> <<>>, width |-> 0, x |-> 0, y |-> 0, lineHeight |-> 0,
           lines |-> <<>>, ret |-> 0, done |-> FALSE]

----------------------------------------------------------------------------
\* Characters and strings.

\* unicode.IsSpace, as used by strings.Fields.
IsSpace(c) == c \in {" ", "\n", "\t"}

\* Runes the loaded font has no glyph for.
MissingGlyphs == {"snow"}

\* Number of UTF-8 bytes of a rune.
RuneBytes(c) ==
  CASE c \in {"snow", "euro"} -> 3
    [] c \in {"a-umlaut", "u-umlaut", "eszett", "section", "middot"} -> 2
    [] OTHER -> 1

\* len(s) of a Go string: its number of bytes.
RECURSIVE ByteLen(_)
ByteLen(s) ==
  CASE Len(s) = 0 -> 0
    [] Len(s) = 1 -> RuneBytes(s[1])
    [] OTHER -> LET h == Len(s) \div 2
                IN ByteLen(SubSeq(s, 1, h)) + ByteLen(SubSeq(s, h + 1, Len(s)))

\* Advance width of a glyph of the current font.
GlyphWidth(c) ==
  CASE c = " " -> 3
    [] c = "W" -> 12
    [] OTHER -> 6

RECURSIVE SumWidths(_)
SumWidths(s) ==
  CASE Len(s) = 0 -> 0
    [] Len(s) = 1 -> GlyphWidth(s[1])
    [] OTHER -> LET h == Len(s) \div 2
                IN SumWidths(SubSeq(s, 1, h)) + SumWidths(SubSeq(s, h + 1, Len(s)))

\* gopdf MeasureTextWidth: the width of the text, or an error when a rune of
\* the text cannot be mapped to a glyph of the font.
MeasureTextWidth(s) ==
  IF \E k \in 1..Len(s) : s[k] \in MissingGlyphs
  THEN [err |-> TRUE, w |-> 0]
  ELSE [err |-> FALSE, w |-> SumWidths(s)]

\* strings.Fields: the maximal runs of non-space characters, in order.
RECURSIVE FieldsFrom(_, _)
FieldsFrom(s, k) ==
  LET starts == {a \in k..Len(s) : ~IsSpace(s[a])}
  IN IF starts = {} THEN <<>>
     ELSE LET a == CHOOSE m \in starts : \A n \in starts : m <= n
              ends == {e \in a..Len(s) : e = Len(s) \/ IsSpace(s[e + 1])}
              b == CHOOSE m \in ends : \A n \in ends : m <= n
          IN <<SubSeq(s, a, b)>> \o FieldsFrom(s, b + 1)

Fields(s) == FieldsFrom(s, 1)

----------------------------------------------------------------------------
\* The gopdf page: cursor and drawn cells.

\* Left margin set by SetMargins(40, 40, 40, 40).
MarginLeft == 40
MarginTop == 40

\* createPDF: a fresh page, cursor at the top-left margin.
createPDF == [x |-> MarginLeft, y |-> MarginTop, drawn |-> <<>>]

\* The --output flag: its value and whether the user set it. The default
\* value is "invoice.pdf".
DefaultOutputName == <<"i", "n", "v", "o", "i", "c", "e", ".", "p", "d", "f">>
DefaultOutput == [value |-> DefaultOutputName, changed |-> FALSE]

\* No second Render call.
NoOther ==
  [pc |-> "idle", pdf |-> createPDF, invoice |-> EmptyInvoice, row |-> 0, sum |-> 0,
   fullInvoiceId |-> <<>>, out |-> NoOutput]

\* No generate command and no second Render call.
Idle ==
  /\ output = DefaultOutput
  /\ other = NoOther

SetX(p, x) == [p EXCEPT !.x = x]
SetY(p, y) == [p EXCEPT !.y = y]

\* Br(h): down by h, back to the left margin.
Br(p, h) == [p EXCEPT !.y = p.y + h, !.x = MarginLeft]

\* Width by which a Cell call advances the cursor.
CellAdvance(s) == LET m == MeasureTextWidth(s) IN IF m.err THEN 0 ELSE m.w

\* Cell(nil, text): draws text at the cursor and advances x by its width.
\* sec names the section renderer that made the call, kind the cell's role.
\* Every call is recorded, also one that returns an error (see CellError):
\* the callers discard the result.
Cell(p, sec, kind, s, val) ==
  [p EXCEPT !.drawn = Append(p.drawn,
                             [sec |-> sec, kind |-> kind, x |-> p.x, y |-> p.y,
                              text |-> s, val |-> val]),
            !.x = p.x + CellAdvance(s)]

\* The Cell call recorded as c returned an error: its text has a rune the
\* font has no glyph for.
CellError(c) == MeasureTextWidth(c.text).err

----------------------------------------------------------------------------
\* writeMultilineText.

\* Width of a candidate line as the loop of writeMultilineText sees it: the
\* measured width, or 5 per byte when measuring fails.
TextWidth_PerRune(testLine) ==
  LET m == MeasureTextWidth(testLine)
  IN IF m.err THEN Len(testLine) * 5 ELSE m.w

\* Mutant of TextWidth: half the measured width is compared.
TextWidth_Halved(testLine) ==
  LET m == MeasureTextWidth(testLine)
  IN IF m.err THEN ByteLen(testLine) * 5 ELSE m.w \div 2

TextWidth(testLine) ==
  LET m == MeasureTextWidth(testLine)
  IN IF m.err THEN ByteLen(testLine) * 5 ELSE m.w

\* The candidate line: the current line, a space if it is non-empty, the word.
TestLine(currentLine, word) ==
  IF currentLine # <<>> THEN currentLine \o <<" ">> \o word ELSE word

\* Mutant of EmitLine: the cursor stays on the line it has drawn.
EmitLine_NoBreak(p, sec, line, x, lineHeight) ==
  Cell(SetX(p, x), sec, "line", line, 0)

\* One emitted line: SetX(x), Cell, Br(lineHeight).
EmitLine(p, sec, line, x, lineHeight) ==
  Br(Cell(SetX(p, x), sec, "line", line, 0), lineHeight)

\* The loop over the words, from word k on, and the flush of the last line.
RECURSIVE WrapLoop(_, _, _, _, _, _, _, _)
WrapLoop(p, sec, words, k, currentLine, x, width, lineHeight) ==
  IF k > Len(words)
  THEN IF currentLine # <<>>
       THEN EmitLine(p, sec, currentLine, x, lineHeight)
       ELSE p
  ELSE LET word == words[k]
           testLine == TestLine(currentLine, word)
           textWidth == TextWidth(testLine)
       IN IF textWidth > width /\ currentLine # <<>>
          THEN WrapLoop(EmitLine(p, sec, currentLine, x, lineHeight),
                        sec, words, k + 1, word, x, width, lineHeight)
          ELSE WrapLoop(p, sec, words, k + 1, testLine, x, width, lineHeight)

\* Mutants of writeMultilineText.
writeMultilineText_DropLast(p, sec, text, x, y, width, lineHeight) ==
  LET words == Fields(text)
  IN WrapLoop(SetY(SetX(p, x), y), sec, SubSeq(words, 1, Len(words) - 1), 1,
              <<>>, x, width, lineHeight)

writeMultilineText_StaleLine(p, sec, text, x, y, width, lineHeight) ==
  WrapLoop(SetY(SetX(p, x), y), sec, Fields(text), 1,
           IF p.drawn = <<>> THEN <<>> ELSE p.drawn[Len(p.drawn)].text,
           x, width, lineHeight)

\* writeMultilineText(pdf, text, x, y, width, lineHeight): the page after the
\* call; the returned Y is the cursor's y.
writeMultilineText(p, sec, text, x, y, width, lineHeight) ==
  WrapLoop(SetY(SetX(p, x), y), sec, Fields(text), 1, <<>>, x, width, lineHeight)

----------------------------------------------------------------------------
\* The currency service.

LowerRunes == <<"a", "b", "c", "d", "e", "f", "g", "h", "i", "j", "k", "l", "m",
                "n", "o", "p", "q", "r", "s", "t", "u", "v", "w", "x", "y", "z">>
UpperRunes == <<"A", "B", "C", "D", "E", "F", "G", "H", "I", "J", "K", "L", "M",
                "N", "O", "P", "Q", "R", "S", "T", "U", "V", "W", "X", "Y", "Z">>

\* strings.ToUpper, rune by rune.
UpperOf ==
  [c \in {LowerRunes[k] : k \in 1..Len(LowerRunes)} |->
     UpperRunes[CHOOSE k \in 1..Len(LowerRunes) : LowerRunes[k] = c]]

UpperRune(c) == IF c \in DOMAIN UpperOf THEN UpperOf[c] ELSE c

ToUpper(s) == [k \in 1..Len(s) |-> UpperRune(s[k])]

\* The built-in table of initDefaultSymbols ("euro", "pound", ... name the
\* runes of the symbols that are not ASCII).
defaultSymbols ==
  (<<"U", "S", "D">> :> <<"$">>) @@ (<<"E", "U", "R">> :> <<"euro">>) @@
  (<<"G", "B", "P">> :> <<"pound">>) @@ (<<"J", "P", "Y">> :> <<"yen">>) @@
  (<<"C", "N", "Y">> :> <<"yen">>) @@ (<<"I", "N", "R">> :> <<"rupee">>) @@
  (<<"R", "U", "B">> :> <<"ruble">>) @@ (<<"K", "R", "W">> :> <<"won">>) @@
  (<<"B", "R", "L">> :> <<"R", "$">>) @@ (<<"S", "G", "D">> :> <<"S", "$">>) @@
  (<<"A", "U", "D">> :> <<"A", "$">>) @@ (<<"C", "A", "D">> :> <<"C", "$">>) @@
  (<<"C", "H", "F">> :> <<"C", "H", "F">>) @@
  (<<"H", "K", "D">> :> <<"H", "K", "$">>) @@
  (<<"N", "Z", "D">> :> <<"N", "Z", "$">>) @@
  (<<"S", "E", "K">> :> <<"k", "r">>) @@ (<<"N", "O", "K">> :> <<"k", "r">>) @@
  (<<"D", "K", "K">> :> <<"k", "r">>) @@ (<<"Z", "A", "R">> :> <<"R">>) @@
  (<<"M", "X", "N">> :> <<"M", "e", "x", "$">>) @@
  (<<"A", "E", "D">> :> <<"dal", ".", "alef">>) @@
  (<<"T", "H", "B">> :> <<"baht">>) @@ (<<"P", "L", "N">> :> <<"z", "lstroke">>)

\* GetSymbol: "" for the empty code, the symbol mapped to the upper-cased
\* code, or else the code as given followed by a space.
GetSymbolOf_NoUpper(table, currency) ==
  IF currency = <<>> THEN <<>>
  ELSE IF currency \in DOMAIN table THEN table[currency]
       ELSE currency \o <<" ">>

GetSymbolOf(table, currency) ==
  IF currency = <<>> THEN <<>>
  ELSE LET currencyUpper == ToUpper(currency)
       IN IF currencyUpper \in DOMAIN table
          THEN table[currencyUpper]
          ELSE currency \o <<" ">>

\* A configuration file is absent, unreadable, or holds text that is no JSON
\* object of either format ("invalid"), a JSON object of strings ("flat"),
\* or an object with a "symbols" object of strings ("structured").
Absent == [kind |-> "absent", symbols |-> <<>>]
Unreadable == [kind |-> "unreadable", symbols |-> <<>>]
InvalidJSON == [kind |-> "invalid", symbols |-> <<>>]
FlatFile(m) == [kind |-> "flat", symbols |-> m]
StructuredFile(m) == [kind |-> "structured", symbols |-> m]

\* The keys of a parsed map that share their upper-cased form with another key.
Colliding(m) ==
  {k \in DOMAIN m : \E j \in DOMAIN m : j # k /\ ToUpper(j) = ToUpper(k)}

\* The ways the range loop over a parsed map can end: Go visits the keys in
\* an unspecified order, so of the keys with one upper-cased form any one
\* may be written last. Each way is the set of keys written last.
RECURSIVE LastAmong(_)
LastAmong(C) ==
  IF C = {} THEN {{}}
  ELSE LET k == CHOOSE v \in C : TRUE
           same == {j \in C : ToUpper(j) = ToUpper(k)}
       IN {W \cup {j} : W \in LastAmong(C \ same), j \in same}

LastWriters(m) ==
  LET C == Colliding(m)
  IN {((DOMAIN m) \ C) \cup W : W \in LastAmong(C)}

\* for code, symbol := range m { s.symbols[strings.ToUpper(code)] = symbol }
\* where last holds the keys whose write is the last for its upper-cased form.
RECURSIVE MergeSymbols(_, _, _)
MergeSymbols(table, m, last) ==
  IF last = {} THEN table
  ELSE LET k == CHOOSE v \in last : TRUE
       IN (ToUpper(k) :> m[k]) @@ MergeSymbols(table, m, last \ {k})

\* LoadConfig on a file: whether it returns an error, and the table after.
LoadConfigOf(table, file, last) ==
  IF file.kind \in {"flat", "structured"}
  THEN [err |-> FALSE, table |-> MergeSymbols(table, file.symbols, last)]
  ELSE [err |-> TRUE, table |-> table]

\* Paths are sequences of path segments.
ConfigDir == <<"config", "currency.json">>
HomeConfig == <<"HOME", ".config", "invoice", "currency.json">>
CustomPath == <<"etc", "custom.json">>
\* currency_config.json in the current directory: the README and the init of
\* currency.go name it, the service never reads it unless asked to.
RootConfig == <<"currency_config.json">>
Paths == {RootConfig, ConfigDir, HomeConfig, CustomPath}

\* loadConfigFromStandardLocations: the table after trying config/currency.json
\* and then $HOME/.config/invoice/currency.json, stopping at the first that loads.
loadConfigFromStandardLocations(table, fs, last1, last2) ==
  LET r1 == LoadConfigOf(table, fs[ConfigDir], last1)
      r2 == LoadConfigOf(table, fs[HomeConfig], last2)
  IN IF ~r1.err THEN r1.table
     ELSE IF ~r2.err THEN r2.table
          ELSE table

\* Parsed maps the configuration files of the model hold.
OverlayLower == (<<"e", "u", "r">> :> <<"E", "U">>)
OverlayNew ==
  (<<"x", "b", "t">> :> <<"B">>) @@ (<<"U", "S", "D">> :> <<"U", "S", "$">>)

FileContents ==
  {Absent, InvalidJSON, FlatFile(OverlayLower), StructuredFile(OverlayNew)}

NoFiles == [p \in Paths |-> Absent]
NoResult == [op |-> "none", arg |-> <<>>, err |-> FALSE, val |-> <<>>]

\* Codes passed to GetSymbol.
Codes ==
  { <<>>, <<"E", "U", "R">>, <<"e", "u", "r">>, <<"E", "u", "r">>,
    <<"X", "Y", "Z">>, <<"u", "s", "d">>, <<"X", "b", "t">> }

\* SpecCurrency starts when NewCurrencyService has returned: the default
\* table, overlaid by the first standard location that loads.
InitCurrency ==
  /\ pdf = createPDF
  /\ pc = "currency"
  /\ call = NoCall
  /\ first = NoCall
  /\ ncalls = 0
  /\ NoRender
  /\ Idle
  /\ files \in [Paths -> FileContents]
  /\ \E l1 \in LastWriters(files[ConfigDir].symbols),
        l2 \in LastWriters(files[HomeConfig].symbols) :
       symbols = loadConfigFromStandardLocations(defaultSymbols, files, l1, l2)
  /\ result = NoResult

\* A mutant of GetSymbol: it stores the fallback it returns in the table.
GetSymbol_Caching(currency) ==
  /\ pc = "currency"
  /\ result' = [op |-> "GetSymbol", arg |-> currency, err |-> FALSE,
                val |-> GetSymbolOf(symbols, currency)]
  /\ symbols' = IF currency = <<>> \/ ToUpper(currency) \in DOMAIN symbols
                THEN symbols
                ELSE (ToUpper(currency) :> (currency \o <<" ">>)) @@ symbols
  /\ UNCHANGED <<pdf, pc, renderVars, wrapVars, files>>

GetSymbol(currency) ==
  /\ pc = "currency"
  /\ result' = [op |-> "GetSymbol", arg |-> currency, err |-> FALSE,
                val |-> GetSymbolOf(symbols, currency)]
  /\ UNCHANGED <<pdf, pc, renderVars, wrapVars, symbols, files>>

\* GetAvailableCurrencies returns a copy of the table.
GetAvailableCurrencies ==
  /\ pc = "currency"
  /\ result' = [op |-> "GetAvailableCurrencies", arg |-> <<>>, err |-> FALSE,
                val |-> symbols]
  /\ UNCHANGED <<pdf, pc, renderVars, wrapVars, symbols, files>>

LoadConfig(configPath) ==
  /\ pc = "currency"
  /\ \E last \in LastWriters(files[configPath].symbols) :
       LET r == LoadConfigOf(symbols, files[configPath], last)
       IN /\ symbols' = r.table
          /\ result' = [op |-> "LoadConfig", arg |-> configPath, err |-> r.err,
                        val |-> <<>>]
  /\ UNCHANGED <<pdf, pc, renderVars, wrapVars, files>>

\* ExportConfig writes the table in the structured format; a path without a
\* directory is placed under config/. Creating the directory or writing the
\* file can fail, and then nothing is written.
ExportConfig(configPath) ==
  /\ pc = "currency"
  /\ LET target == IF Len(configPath) = 1 THEN <<"config">> \o configPath
                   ELSE configPath
     IN \E ok \in BOOLEAN :
          /\ files' = IF ok /\ target \in Paths
                      THEN [files EXCEPT ![target] = StructuredFile(symbols)]
                      ELSE files
          /\ result' = [op |-> "ExportConfig", arg |-> configPath, err |-> ~ok,
                        val |-> <<>>]
  /\ UNCHANGED <<pdf, pc, renderVars, wrapVars, symbols>>

NextCurrency ==
  \/ \E c \in Codes : GetSymbol(c)
  \/ GetAvailableCurrencies
  \/ \E p \in Paths : LoadConfig(p)
  \/ \E p \in {CustomPath, <<"currency.json">>} : ExportConfig(p)

SpecCurrency == InitCurrency /\ [][NextCurrency]_vars

----------------------------------------------------------------------------
\* Strings of the renderer.

\* strings.ReplaceAll(s, `\n`, "\n"): every backslash followed by n becomes
\* a line break.
RECURSIVE ReplaceEscapedNewlines(_)
ReplaceEscapedNewlines(s) ==
  IF s = <<>> THEN <<>>
  ELSE IF Len(s) >= 2 /\ s[1] = "\\" /\ s[2] = "n"
       THEN <<"\n">> \o ReplaceEscapedNewlines(SubSeq(s, 3, Len(s)))
       ELSE <<s[1]>> \o ReplaceEscapedNewlines(Tail(s))

\* strings.Split(s, "\n"): the pieces between line breaks, empty ones kept.
RECURSIVE SplitFrom(_, _, _)
SplitFrom(s, k, cur) ==
  IF k > Len(s) THEN <<cur>>
  ELSE IF s[k] = "\n"
       THEN <<cur>> \o SplitFrom(s, k + 1, <<>>)
       ELSE SplitFrom(s, k + 1, Append(cur, s[k]))

SplitLines(s) == SplitFrom(s, 1, <<>>)

\* strings.Contains(s, "\n")
ContainsNewline(s) == \E k \in 1..Len(s) : s[k] = "\n"

\* Labels and fixed texts.
subtotalLabel ==
  <<"Z", "w", "i", "s", "c", "h", "e", "n", "s", "u", "m", "m", "e">>

discountLabel ==
  <<"R", "a", "b", "a", "t", "t">>

taxLabel ==
  <<"M", "w", "S", "t", ".">>

totalLabel ==
  <<"G", "e", "s", "a", "m", "t">>

dueDateLabel ==
  <<"F", "a-umlaut", "l", "l", "i", "g", "k", "e", "i", "t", "s", "d", "a",
  "t", "u", "m">>

billToLabel ==
  <<"R", "E", "C", "H", "N", "U", "N", "G", " ", "A", "N">>

itemLabel ==
  <<"A", "R", "T", "I", "K", "E", "L", " ", "U", "N", "D", " ", "B", "E",
  "S", "C", "H", "R", "E", "I", "B", "U", "N", "G">>

qtyLabel ==
  <<"M", "E", "N", "G", "E">>

rateLabel ==
  <<"P", "R", "E", "I", "S">>

amountLabel ==
  <<"B", "E", "T", "R", "A", "G">>

notesLabel ==
  <<"H", "I", "N", "W", "E", "I", "S", "E">>

taxExemptNotice ==
  <<"G", "e", "m", "a-umlaut", "eszett", " ", "section", " ", "1", "9", " ",
  "U", "S", "t", "G", " ", "w", "i", "r", "d", " ", "k", "e", "i", "n", "e",
  " ", "U", "m", "s", "a", "t", "z", "s", "t", "e", "u", "e", "r", " ", "b",
  "e", "r", "e", "c", "h", "n", "e", "t", ".">>

bankHeader ==
  <<"B", "a", "n", "k", "v", "e", "r", "b", "i", "n", "d", "u", "n", "g",
  ":">>

phonePrefix ==
  <<"T", "e", "l", ".", ":", " ">>

ibanPrefix ==
  <<"I", "B", "A", "N", ":", " ">>

bicPrefix ==
  <<"B", "I", "C", ":", " ">>

contactSeparator ==
  <<" ", "|", " ">>

pageSuffix ==
  <<" ", "middot", " ", "1", "/", "1">>

titleSeparator ==
  <<" ", " ", "middot", " ", " ">>


\* strconv.FormatFloat(v, 'f', 2, 64): the amount v, in units of 1/10000,
\* rounded to the nearest hundredth (ties to even); the result is the number
\* of hundredths the printed decimal stands for.
FormatFloat2(v) ==
  LET q == v \div 100
      r == v % 100
  IN IF r > 50 \/ (r = 50 /\ q % 2 = 1) THEN q + 1 ELSE q

\* amount * rate, for a rate given in percent.
MulRate(amount, pct) == (amount * pct) \div 100

\* The amount of float64(quantity) * rate for a rate in hundredths.
RowTotal(quantity, rate) == quantity * rate * 100

----------------------------------------------------------------------------
\* Section renderers. Each takes the page and gives the page after the call.

quantityColumnOffset == 390
rateColumnOffset == 450
amountColumnOffset == 510

\* pdf.Line: a rule at the cursor's y; the cursor does not move.
Line(p, sec) ==
  [p EXCEPT !.drawn = Append(p.drawn,
                             [sec |-> sec, kind |-> "rule", x |-> p.x, y |-> p.y,
                              text |-> <<>>, val |-> 0])]

\* The loop over the lines of the from and to blocks: the first line is
\* followed by Br(firstBr), every other line by Br(12).
RECURSIVE writeLines(_, _, _, _, _)
writeLines(p, sec, lines, i, firstBr) ==
  IF i > Len(lines) THEN p
  ELSE writeLines(Br(Cell(p, sec, IF i = 1 THEN "first" ELSE "more", lines[i], 0),
                     IF i = 1 THEN firstBr ELSE 12),
                  sec, lines, i + 1, firstBr)

\* Mutant of writeLogo: the cursor moves down for every logo path.
writeLogo_AdvanceAlways(p, logo, from, image) ==
  LET p1 == IF logo # <<>> THEN Br(p, 110) ELSE p
      p2 == writeLines(p1, "writeLogo", SplitLines(ReplaceEscapedNewlines(from)), 1, 14)
  IN Br(Line(Br(p2, 15), "writeLogo"), 20)

\* writeLogo. image is the file at the logo path: "ok" with its dimensions,
\* "unreadable" (it cannot be opened or decoded, and pdf.Image fails), or
\* "rejected" (its dimensions can be read but pdf.Image fails).
writeLogo(p, logo, from, image) ==
  LET scaled == IF image.kind = "unreadable" THEN 0
                ELSE (image.height * 150) \div image.width
      scaledHeight == IF scaled > 100 THEN 100 ELSE scaled
      p1 == IF logo # <<>> /\ image.kind = "ok"
            THEN Br(p, scaledHeight + 10)
            ELSE p
      p2 == writeLines(p1, "writeLogo", SplitLines(ReplaceEscapedNewlines(from)), 1, 14)
  IN Br(Line(Br(p2, 15), "writeLogo"), 20)

writeTitle(p, title, id, date) ==
  LET p1 == Br(Cell(p, "writeTitle", "title", title, 0), 24)
      p2 == Cell(p1, "writeTitle", "hash", <<"#">>, 0)
      p3 == Cell(p2, "writeTitle", "id", id, 0)
      p4 == Cell(p3, "writeTitle", "separator", titleSeparator, 0)
      p5 == Cell(p4, "writeTitle", "date", date, 0)
  IN Br(p5, 32)

writeDueDate(p, due) ==
  LET p1 == Cell(SetX(p, 350), "writeDueDate", "label", dueDateLabel, 0)
      p2 == Cell(SetX(p1, 470), "writeDueDate", "due", due, 0)
  IN Br(p2, 12)

writeBillTo(p, to) ==
  LET p1 == Br(Cell(p, "writeBillTo", "label", billToLabel, 0), 12)
      p2 == writeLines(p1, "writeBillTo", SplitLines(ReplaceEscapedNewlines(to)), 1, 16)
  IN Br(p2, 30)

writeHeaderRow(p) ==
  LET p1 == Cell(p, "writeHeaderRow", "label", itemLabel, 0)
      p2 == Cell(SetX(p1, quantityColumnOffset), "writeHeaderRow", "label", qtyLabel, 0)
      p3 == Cell(SetX(p2, rateColumnOffset), "writeHeaderRow", "label", rateLabel, 0)
      p4 == Cell(SetX(p3, amountColumnOffset), "writeHeaderRow", "label", amountLabel, 0)
  IN Br(p4, 24)

writeNotes(p, notes) ==
  LET p1 == SetY(p, p.y + 15)
      p2 == Br(Cell(p1, "writeNotes", "label", notesLabel, 0), 12)
  IN writeMultilineText(p2, "writeNotes", ReplaceEscapedNewlines(notes),
                        p2.x, p2.y, 320, 12)

\* writeRow. A numeric cell holds the currency symbol as its text and the
\* printed number as its value.
writeRow(p, item, quantity, rate, currency, table) ==
  LET total == RowTotal(quantity, rate)
      p1 == IF ByteLen(item) > 40
            THEN LET q == writeMultilineText(p, "writeRow", item, p.x, p.y,
                                             quantityColumnOffset - 60, 12)
                 IN SetY(q, q.y - 12)
            ELSE Cell(p, "writeRow", "item", item, 0)
      currencySymbol == GetSymbolOf(table, currency)
      p2 == Cell(SetX(p1, quantityColumnOffset), "writeRow", "quantity", <<>>, quantity)
      p3 == Cell(SetX(p2, rateColumnOffset), "writeRow", "rate", currencySymbol,
                 FormatFloat2(rate * 100))
      p4 == Cell(SetX(p3, amountColumnOffset), "writeRow", "amount", currencySymbol,
                 FormatFloat2(total))
  IN Br(p4, 20)

\* writeTotal: the label at x 350, the value at x 470, then Br(24).
writeTotal(p, label, total, currencySymbol) ==
  LET p1 == Cell(SetX(p, 350), "writeTotals", "label", label, 0)
      p2 == Cell(SetX(p1, 470), "writeTotals", "value", currencySymbol,
                 FormatFloat2(total))
  IN Br(p2, 24)

\* Mutants of writeTotals.
writeTotals_TaxAlways(p, subtotal, tax, discount, taxExempt, currency, table) ==
  LET currencySymbol == GetSymbolOf(table, currency)
      p1 == writeTotal(SetY(SetX(p, 350), p.y + 20), subtotalLabel, subtotal,
                       currencySymbol)
      p2 == IF ~taxExempt /\ tax > 0
            THEN writeTotal(p1, taxLabel, tax, currencySymbol)
            ELSE IF taxExempt
                 THEN Br(Cell(SetX(p1, 350), "writeTotals", "notice",
                              taxExemptNotice, 0), 24)
                 ELSE p1
      p3 == IF discount > 0
            THEN writeTotal(p2, discountLabel, discount, currencySymbol)
            ELSE p2
  IN writeTotal(p3, totalLabel, subtotal - discount + tax, currencySymbol)

writeTotals_TaxLineWhenExempt(p, subtotal, tax, discount, taxExempt, currency, table) ==
  LET currencySymbol == GetSymbolOf(table, currency)
      p1 == writeTotal(SetY(SetX(p, 350), p.y + 20), subtotalLabel, subtotal,
                       currencySymbol)
      p2 == IF tax > 0
            THEN writeTotal(p1, taxLabel, tax, currencySymbol)
            ELSE p1
      p2b == IF taxExempt
             THEN Br(Cell(SetX(p2, 350), "writeTotals", "notice",
                          taxExemptNotice, 0), 24)
             ELSE p2
      p3 == IF discount > 0
            THEN writeTotal(p2b, discountLabel, discount, currencySymbol)
            ELSE p2b
      total == (subtotal - discount) + (IF ~taxExempt THEN tax ELSE 0)
  IN writeTotal(p3, totalLabel, total, currencySymbol)

writeTotals_DiscountAlways(p, subtotal, tax, discount, taxExempt, currency, table) ==
  LET currencySymbol == GetSymbolOf(table, currency)
      p1 == writeTotal(SetY(SetX(p, 350), p.y + 20), subtotalLabel, subtotal,
                       currencySymbol)
      p2 == IF ~taxExempt /\ tax > 0
            THEN writeTotal(p1, taxLabel, tax, currencySymbol)
            ELSE IF taxExempt
                 THEN Br(Cell(SetX(p1, 350), "writeTotals", "notice",
                              taxExemptNotice, 0), 24)
                 ELSE p1
      p3 == writeTotal(p2, discountLabel, discount, currencySymbol)
      total == (subtotal - discount) + (IF ~taxExempt THEN tax ELSE 0)
  IN writeTotal(p3, totalLabel, total, currencySymbol)

\* writeTotals(pdf, subtotal, tax, discount, taxExempt, currency).
writeTotals(p, subtotal, tax, discount, taxExempt, currency, table) ==
  LET currencySymbol == GetSymbolOf(table, currency)
      p1 == writeTotal(SetY(SetX(p, 350), p.y + 20), subtotalLabel, subtotal,
                       currencySymbol)
      p2 == IF ~taxExempt /\ tax > 0
            THEN writeTotal(p1, taxLabel, tax, currencySymbol)
            ELSE IF taxExempt
                 THEN Br(Cell(SetX(p1, 350), "writeTotals", "notice",
                              taxExemptNotice, 0), 24)
                 ELSE p1
      p3 == IF discount > 0
            THEN writeTotal(p2, discountLabel, discount, currencySymbol)
            ELSE p2
      total == (subtotal - discount) + (IF ~taxExempt THEN tax ELSE 0)
  IN writeTotal(p3, totalLabel, total, currencySymbol)

\* writeTotals of pdf.go in the main package: the block starts at the fixed
\* y 600, the symbol is read from the currencySymbols map by the code as
\* given, the tax and discount lines are drawn when positive, and the total is
\* subtotal + tax - discount.
mainWriteTotals(p, subtotal, tax, discount, currency, table) ==
  LET currencySymbol == IF currency \in DOMAIN table THEN table[currency] ELSE <<>>
      p1 == writeTotal(SetY(SetX(p, 350), 600), subtotalLabel, subtotal,
                       currencySymbol)
      p2 == IF tax > 0 THEN writeTotal(p1, taxLabel, tax, currencySymbol) ELSE p1
      p3 == IF discount > 0
            THEN writeTotal(p2, discountLabel, discount, currencySymbol)
            ELSE p2
  IN writeTotal(p3, totalLabel, (subtotal + tax) - discount, currencySymbol)

\* Mutant of ZipCity: zip and city are always joined by a space.
ZipCity_AlwaysJoin(footer) == footer.Zip \o <<" ">> \o footer.City

\* The zip and city line of the footer.
ZipCity(footer) ==
  IF footer.Zip # <<>> /\ footer.City # <<>>
  THEN footer.Zip \o <<" ">> \o footer.City
  ELSE IF footer.City # <<>> THEN footer.City ELSE footer.Zip

\* Mutant of ContactInfo: the separator is always written.
ContactInfo_AlwaysSeparator(footer) ==
  footer.Email \o contactSeparator \o footer.Website

\* The e-mail and website line of the footer.
ContactInfo(footer) ==
  IF footer.Email # <<>>
  THEN IF footer.Website # <<>>
       THEN footer.Email \o contactSeparator \o footer.Website
       ELSE footer.Email
  ELSE IF footer.Website # <<>> THEN footer.Website ELSE <<>>

\* Mutant of writeFooter: the flags alone decide.
writeFooter_FlagsOnly(p, id, footer) ==
  LET sec == "writeFooter"
      p0 == Br(Line(SetY(p, 770), sec), 15)
      c1 == Br(Cell(SetX(p0, 40), sec, "company", footer.CompanyName, 0), 10)
      c2 == IF footer.ShowRegistration
            THEN Br(Cell(SetX(c1, 40), sec, "registration",
                         ReplaceEscapedNewlines(footer.RegistrationInfo), 0), 10)
            ELSE c1
      c3 == IF footer.ShowVatId
            THEN Cell(SetX(c2, 40), sec, "vat", footer.VatId, 0)
            ELSE c2
      m1 == Br(Cell(SetX(SetY(c3, p0.y), 215), sec, "address", footer.Address, 0), 10)
      m2 == Br(Cell(SetX(m1, 215), sec, "zipCity", ZipCity(footer), 0), 10)
  IN Cell(SetX(SetY(m2, 25), 500), sec, "pageNumber", id \o pageSuffix, 0)

\* Mutant of ColumnStart: a column goes on where the one before it ended.
ColumnStart_Continue(p, startY) == p

\* The start of the middle and of the right column: pdf.SetY(startY).
ColumnStart(p, startY) == SetY(p, startY)

\* writeFooter: the rule at y 770, three columns from the same y, and the
\* invoice number at the top of the page.
writeFooter(p, id, footer) ==
  LET sec == "writeFooter"
      leftColX == 40
      middleColX == 215
      rightColX == 400
      lineHeight == 10
      p0 == Br(Line(SetY(p, 770), sec), 15)
      startY == p0.y
      c1 == Br(Cell(SetX(p0, leftColX), sec, "company", footer.CompanyName, 0),
               lineHeight)
      formattedRegInfo == ReplaceEscapedNewlines(footer.RegistrationInfo)
      c2 == IF footer.ShowRegistration /\ footer.RegistrationInfo # <<>>
            THEN IF ContainsNewline(formattedRegInfo)
                 THEN writeMultilineText(SetX(c1, leftColX), "writeFooter.registration",
                                         formattedRegInfo, leftColX, c1.y, 150, lineHeight)
                 ELSE Br(Cell(SetX(c1, leftColX), sec, "registration",
                              formattedRegInfo, 0), lineHeight)
            ELSE c1
      c3 == IF footer.ShowVatId /\ footer.VatId # <<>>
            THEN Cell(SetX(c2, leftColX), sec, "vat", footer.VatId, 0)
            ELSE c2
      m1 == Br(Cell(SetX(ColumnStart(c3, startY), middleColX), sec, "address",
                    footer.Address, 0), lineHeight)
      m2 == Br(Cell(SetX(m1, middleColX), sec, "zipCity", ZipCity(footer), 0),
               lineHeight)
      m3 == Br(IF footer.Phone # <<>>
               THEN Cell(SetX(m2, middleColX), sec, "phone",
                         phonePrefix \o footer.Phone, 0)
               ELSE SetX(m2, middleColX),
               lineHeight)
      contactInfo == ContactInfo(footer)
      m4 == IF ByteLen(contactInfo) > 30
            THEN writeMultilineText(SetX(m3, middleColX), "writeFooter.contact",
                                    contactInfo, middleColX, m3.y, 160, lineHeight)
            ELSE Cell(SetX(m3, middleColX), sec, "contact", contactInfo, 0)
      r1 == Br(Cell(SetX(ColumnStart(m4, startY), rightColX), sec, "bankHeader",
                    bankHeader, 0), lineHeight)
      r2 == Br(Cell(SetX(r1, rightColX), sec, "bankName", footer.BankName, 0),
               lineHeight)
      r3 == Br(IF footer.BankIban # <<>>
               THEN Cell(SetX(r2, rightColX), sec, "iban",
                         ibanPrefix \o footer.BankIban, 0)
               ELSE SetX(r2, rightColX),
               lineHeight)
      r4 == IF footer.BankBic # <<>>
            THEN Cell(SetX(r3, rightColX), sec, "bic", bicPrefix \o footer.BankBic, 0)
            ELSE SetX(r3, rightColX)
  IN Cell(SetX(SetY(r4, 25), 500), sec, "pageNumber", id \o pageSuffix, 0)

----------------------------------------------------------------------------
\* Inputs of the wrapping specifications.

WrapAlphabet == {"a", "W", " ", "snow"}

RECURSIVE SeqsUpTo(_, _)
SeqsUpTo(S, n) ==
  IF n = 0 THEN {<<>>}
  ELSE LET shorter == SeqsUpTo(S, n - 1)
       IN shorter \cup {Append(s, c) : s \in {t \in shorter : Len(t) = n - 1}, c \in S}

WrapTexts == SeqsUpTo(WrapAlphabet, MaxTextLen)
ShortTexts == SeqsUpTo(WrapAlphabet, MaxShortLen)
OtherTexts == {<<"a">>, <<"W", " ", "W", " ", "a">>}
WrapWidths == {8, 16, 35}
LineHeights == {10, 12}
StartYs == {40, 200}

\* The cells a call appended to the page.
NewCells(before, after) ==
  SubSeq(after.drawn, Len(before.drawn) + 1, Len(after.drawn))

\* The record of one call of writeMultilineText on page p.
CallRecord(p, text, x, y, width, lineHeight) ==
  LET q == writeMultilineText(p, "wrap", text, x, y, width, lineHeight)
  IN [text |-> text, width |-> width, x |-> x, y |-> y,
      lineHeight |-> lineHeight, lines |-> NewCells(p, q), ret |-> q.y,
      done |-> TRUE]

PageAfter(p, text, x, y, width, lineHeight) ==
  writeMultilineText(p, "wrap", text, x, y, width, lineHeight)

----------------------------------------------------------------------------
\* SpecWrap: one call of writeMultilineText on a fresh page, for every text,
\* width, start position and line height of the bounded input sets.

InitWrap ==
  /\ pdf = createPDF
  /\ pc = "wrap"
  /\ \E t \in WrapTexts, w \in WrapWidths, y \in StartYs, lh \in LineHeights :
       call = [NoCall EXCEPT !.text = t, !.width = w, !.x = MarginLeft,
                             !.y = y, !.lineHeight = lh]
  /\ first = NoCall
  /\ ncalls = 0
  /\ symbols = defaultSymbols
  /\ files = NoFiles
  /\ result = NoResult
  /\ NoRender
  /\ Idle

CallWriteMultilineText ==
  /\ pc = "wrap"
  /\ ~call.done
  /\ call' = CallRecord(pdf, call.text, call.x, call.y, call.width, call.lineHeight)
  /\ pdf' = PageAfter(pdf, call.text, call.x, call.y, call.width, call.lineHeight)
  /\ UNCHANGED <<pc, first, ncalls, renderVars, currencyVars>>

NextWrap == CallWriteMultilineText

SpecWrap == InitWrap /\ [][NextWrap]_vars

----------------------------------------------------------------------------
\* SpecRewrap: a sequence of calls of writeMultilineText on one page. The
\* reference text and width are chosen at the start; each call wraps either
\* the reference text or another text, at the cursor the page then has.

InitRewrap ==
  /\ pdf = createPDF
  /\ pc = "rewrap"
  /\ call = NoCall
  /\ \E t \in ShortTexts, w \in WrapWidths :
       first = [NoCall EXCEPT !.text = t, !.width = w]
  /\ ncalls = 0
  /\ symbols = defaultSymbols
  /\ files = NoFiles
  /\ result = NoResult
  /\ NoRender
  /\ Idle

WrapRef ==
  /\ pc = "rewrap"
  /\ ncalls < MaxCalls
  /\ call' = CallRecord(pdf, first.text, pdf.x, pdf.y, first.width, 12)
  /\ pdf' = PageAfter(pdf, first.text, pdf.x, pdf.y, first.width, 12)
  /\ first' = IF first.done THEN first ELSE call'
  /\ ncalls' = ncalls + 1
  /\ UNCHANGED <<pc, renderVars, currencyVars>>

WrapOther ==
  /\ pc = "rewrap"
  /\ ncalls < MaxCalls
  /\ \E t \in OtherTexts :
       /\ call' = CallRecord(pdf, t, pdf.x, pdf.y, 16, 12)
       /\ pdf' = PageAfter(pdf, t, pdf.x, pdf.y, 16, 12)
  /\ ncalls' = ncalls + 1
  /\ UNCHANGED <<pc, first, renderVars, currencyVars>>

NextRewrap == WrapRef \/ WrapOther

SpecRewrap == InitRewrap /\ [][NextRewrap]_vars

----------------------------------------------------------------------------
\* Spec: Render of one invoice, one step per section renderer.

\* The footer of DefaultFooter, with short texts.
SampleFooter ==
  [CompanyName |-> <<"F">>, RegistrationInfo |-> <<"H", "R", "B">>,
   ShowRegistration |-> TRUE, VatId |-> <<"D", "E", "1">>, ShowVatId |-> TRUE,
   Address |-> <<"S", "t", "r">>, City |-> <<"M">>, Zip |-> <<"8">>,
   Phone |-> <<"4", "9">>, Email |-> <<"m", "@", "f">>, Website |-> <<"w", ".", "f">>,
   BankName |-> <<"S", "p">>, BankIban |-> <<"D", "E", "1", "2">>,
   BankBic |-> <<"A", "B">>]

FontStates == {"ok", "missing", "corrupt"}

InterRegularFont == <<"Inter", "Inter Variable", "Inter.ttf">>
InterBoldFont == <<"Inter", "Inter Hinted for Windows", "Desktop", "Inter-Bold.ttf">>

\* Mutant of setupFonts: the regular font is loaded before the bold font file
\* is looked for.
setupFonts_LoadFirst(regular, bold) ==
  IF regular = "missing"
  THEN [err |-> "fonts missing", names |-> {InterRegularFont, InterBoldFont}]
  ELSE IF regular # "ok"
       THEN [err |-> "failed to load Inter font", names |-> {}]
       ELSE IF bold = "missing"
            THEN [err |-> "fonts missing", names |-> {InterRegularFont, InterBoldFont}]
            ELSE IF bold # "ok"
                 THEN [err |-> "failed to load Inter-Bold font", names |-> {}]
                 ELSE [err |-> "none", names |-> {}]

\* setupFonts: the error it returns for the state of the two font files, and
\* the paths its message names. A file that does not exist is reported with
\* both paths; a file that is there but cannot be loaded is reported by
\* AddTTFFont.
setupFonts(regular, bold) ==
  IF regular = "missing" \/ bold = "missing"
  THEN [err |-> "fonts missing", names |-> {InterRegularFont, InterBoldFont}]
  ELSE IF regular # "ok"
       THEN [err |-> "failed to load Inter font", names |-> {}]
       ELSE IF bold # "ok"
            THEN [err |-> "failed to load Inter-Bold font", names |-> {}]
            ELSE [err |-> "none", names |-> {}]

\* The files a logo path can name.
Images(logo) ==
  IF logo = <<>> THEN {NoImage}
  ELSE {[kind |-> "ok", width |-> 300, height |-> 100],
        [kind |-> "ok", width |-> 100, height |-> 200],
        [kind |-> "unreadable", width |-> 0, height |-> 0],
        [kind |-> "rejected", width |-> 300, height |-> 100]}

\* The font and logo files an invoice with this logo path can meet.
AssetsFor(logo) ==
  {[fonts |-> [regular |-> r, bold |-> b], logo |-> img] :
     r \in FontStates, b \in FontStates, img \in Images(logo)}

ItemNames == <<"A", "B", "C", "D", "E", "F">>

\* The item descriptions of an invoice of n items.
ItemsOf(n) == [k \in 1..n |-> <<ItemNames[k]>>]

QuantityValues == {1, 2}
RateValues == {5000, 20000}
TaxValues == {0, 19}
DiscountValues == {0, 10}
NoteValues == {<<>>, <<"a", " ", "a">>}
DueValues == {<<>>, <<"1", ".", "2">>}

Invoices ==
  {[EmptyInvoice EXCEPT
      !.Id = <<"7">>, !.IdSuffix = <<"-", "R">>, !.Title = <<"R">>,
      !.From = <<"F", "\\", "n", "x">>, !.To = <<"K">>, !.Date = <<"1", ".", "1">>,
      !.Due = nd[2], !.Items = ItemsOf(n), !.Quantities = qs, !.Rates = rs,
      !.Tax = tax, !.TaxExempt = exempt, !.Discount = discount,
      !.Currency = <<"E", "U", "R">>, !.Note = nd[1], !.Footer = SampleFooter] :
     n \in 0..MaxItems,
     qs \in SeqsUpTo(QuantityValues, MaxParallel),
     rs \in SeqsUpTo(RateValues, MaxParallel),
     tax \in TaxValues, discount \in DiscountValues, exempt \in BOOLEAN,
     nd \in {<<<<>>, <<>>>>, <<<<"a", " ", "a">>, <<"1", ".", "2">>>>}}

Init ==
  /\ pdf = createPDF
  /\ pc = "Render"
  /\ invoice \in Invoices
  /\ row = 0
  /\ sum = 0
  /\ fullInvoiceId = <<>>
  /\ out = NoOutput
  /\ Idle
  /\ assets \in {a \in AssetsFor(<<>>) : a.fonts.bold = "ok"}
  /\ call = NoCall
  /\ first = NoCall
  /\ ncalls = 0
  /\ symbols = defaultSymbols
  /\ files = NoFiles
  /\ result = NoResult

\* Mutant of AfterRows: the notes are never written.
AfterRows_SkipNotes == "writeTotals"

\* The step after the item loop.
AfterRows == IF invoice.Note # <<>> THEN "writeNotes" ELSE "writeTotals"

\* RenderStart, up to the first section: createPDF, setupFonts, the full
\* invoice id.
RenderStart ==
  /\ pc = "Render"
  /\ LET e == setupFonts(assets.fonts.regular, assets.fonts.bold)
     IN /\ out' = [written |-> FALSE, err |-> e.err, names |-> e.names]
        /\ pc' = IF e.err = "none" THEN "writeLogo" ELSE "failed"
  /\ pdf' = createPDF
  /\ fullInvoiceId' = IF invoice.IdSuffix # <<>>
                      THEN invoice.Id \o invoice.IdSuffix
                      ELSE invoice.Id
  /\ UNCHANGED <<invoice, row, sum, assets, output, other, wrapVars, currencyVars>>

DoWriteLogo ==
  /\ pc = "writeLogo"
  /\ pdf' = writeLogo(pdf, invoice.Logo, invoice.From, assets.logo)
  /\ pc' = "writeTitle"
  /\ UNCHANGED <<renderVars, wrapVars, currencyVars>>

DoWriteTitle ==
  /\ pc = "writeTitle"
  /\ pdf' = writeTitle(pdf, invoice.Title, fullInvoiceId, invoice.Date)
  /\ pc' = "writeBillTo"
  /\ UNCHANGED <<renderVars, wrapVars, currencyVars>>

DoWriteBillTo ==
  /\ pc = "writeBillTo"
  /\ pdf' = writeBillTo(pdf, invoice.To)
  /\ pc' = "writeHeaderRow"
  /\ UNCHANGED <<renderVars, wrapVars, currencyVars>>

DoWriteHeaderRow ==
  /\ pc = "writeHeaderRow"
  /\ pdf' = writeHeaderRow(pdf)
  /\ row' = 1
  /\ sum' = 0
  /\ pc' = IF Len(invoice.Items) > 0 THEN "writeRow" ELSE AfterRows
  /\ UNCHANGED <<invoice, fullInvoiceId, out, assets, output, other, wrapVars, currencyVars>>

\* Mutant of QuantityAt: a missing quantity counts as 0.
QuantityAt_DefaultZero(inv, k) == IF Len(inv.Quantities) >= k THEN inv.Quantities[k] ELSE 0

\* The quantity and rate the item loop uses for item k.
QuantityAt(inv, k) == IF Len(inv.Quantities) >= k THEN inv.Quantities[k] ELSE 1
RateAt(inv, k) == IF Len(inv.Rates) >= k THEN inv.Rates[k] ELSE 0

\* One iteration of the item loop.
DoWriteRow ==
  /\ pc = "writeRow"
  /\ LET q == QuantityAt(invoice, row)
         rate == RateAt(invoice, row)
     IN /\ pdf' = writeRow(pdf, invoice.Items[row], q, rate, invoice.Currency, symbols)
        /\ sum' = sum + RowTotal(q, rate)
  /\ row' = row + 1
  /\ pc' = IF row = Len(invoice.Items) THEN AfterRows ELSE "writeRow"
  /\ UNCHANGED <<invoice, fullInvoiceId, out, assets, output, other, wrapVars, currencyVars>>

DoWriteNotes ==
  /\ pc = "writeNotes"
  /\ pdf' = writeNotes(pdf, invoice.Note)
  /\ pc' = "writeTotals"
  /\ UNCHANGED <<renderVars, wrapVars, currencyVars>>

DoWriteTotals ==
  /\ pc = "writeTotals"
  /\ pdf' = writeTotals(pdf, sum, MulRate(sum, invoice.Tax),
                        MulRate(sum, invoice.Discount), invoice.TaxExempt,
                        invoice.Currency, symbols)
  /\ pc' = IF invoice.Due # <<>> THEN "writeDueDate" ELSE "writeFooter"
  /\ UNCHANGED <<renderVars, wrapVars, currencyVars>>

DoWriteDueDate ==
  /\ pc = "writeDueDate"
  /\ pdf' = writeDueDate(pdf, invoice.Due)
  /\ pc' = "writeFooter"
  /\ UNCHANGED <<renderVars, wrapVars, currencyVars>>

DoWriteFooter ==
  /\ pc = "writeFooter"
  /\ pdf' = writeFooter(pdf, fullInvoiceId, invoice.Footer)
  /\ pc' = "write"
  /\ UNCHANGED <<renderVars, wrapVars, currencyVars>>

\* pdf.Write(w) / pdf.WritePdf(filePath): the write succeeds or its error is
\* returned.
DoWrite ==
  /\ pc = "write"
  /\ \E ok \in BOOLEAN :
       /\ out' = [written |-> ok, err |-> IF ok THEN "none" ELSE "write failed",
                   names |-> {}]
       /\ pc' = IF ok THEN "done" ELSE "failed"
  /\ UNCHANGED <<pdf, invoice, row, sum, fullInvoiceId, assets, output, other, wrapVars, currencyVars>>

Next ==
  \/ RenderStart
  \/ DoWriteLogo
  \/ DoWriteTitle
  \/ DoWriteBillTo
  \/ DoWriteHeaderRow
  \/ DoWriteRow
  \/ DoWriteNotes
  \/ DoWriteTotals
  \/ DoWriteDueDate
  \/ DoWriteFooter
  \/ DoWrite

Spec == Init /\ [][Next]_vars

----------------------------------------------------------------------------
\* SpecFooter: Render of an invoice whose footer fields vary.

ShownTexts == {<<>>, <<"D">>}
RegistrationTexts ==
  {<<>>, <<"H">>, <<"H", "\\", "n", "R">>, <<"\\", "n">>, <<" ", "\n">>}
ZipTexts == {<<>>, <<"8", "0">>}
CityTexts == {<<>>, <<"M">>}

Footers ==
  {[SampleFooter EXCEPT
      !.ShowRegistration = sr, !.RegistrationInfo = ri, !.ShowVatId = sv,
      !.VatId = vi, !.Zip = z, !.City = c] :
     sr \in BOOLEAN, ri \in RegistrationTexts, sv \in BOOLEAN, vi \in ShownTexts,
     z \in ZipTexts, c \in CityTexts}

\* An invoice of one item with a note and a due date.
BaseInvoice ==
  [EmptyInvoice EXCEPT
     !.Id = <<"7">>, !.Title = <<"R">>, !.From = <<"F">>, !.To = <<"K">>,
     !.Date = <<"1", ".", "1">>, !.Due = <<"1", ".", "2">>, !.Items = ItemsOf(1),
     !.Quantities = <<2>>, !.Rates = <<5000>>, !.Tax = 19,
     !.Currency = <<"E", "U", "R">>, !.Note = <<"a">>, !.Footer = SampleFooter]

InitFooter ==
  /\ pdf = createPDF
  /\ pc = "Render"
  /\ \E f \in Footers : invoice = [BaseInvoice EXCEPT !.Footer = f]
  /\ row = 0
  /\ sum = 0
  /\ fullInvoiceId = <<>>
  /\ out = NoOutput
  /\ Idle
  /\ assets \in {a \in AssetsFor(<<>>) : a.fonts.bold = "ok"}
  /\ call = NoCall
  /\ first = NoCall
  /\ ncalls = 0
  /\ symbols = defaultSymbols
  /\ files = NoFiles
  /\ result = NoResult

SpecFooter == InitFooter /\ [][Next]_vars

----------------------------------------------------------------------------
\* SpecAssets: Render with every state of the font files and the logo file.

AssetInvoices ==
  {[BaseInvoice EXCEPT !.Logo = logo, !.Note = note, !.Due = due] :
     logo \in {<<>>, <<"l">>}, note \in NoteValues, due \in DueValues}

InitAssets ==
  /\ pdf = createPDF
  /\ pc = "Render"
  /\ invoice \in AssetInvoices
  /\ assets \in AssetsFor(invoice.Logo)
  /\ row = 0
  /\ sum = 0
  /\ fullInvoiceId = <<>>
  /\ out = NoOutput
  /\ Idle
  /\ call = NoCall
  /\ first = NoCall
  /\ ncalls = 0
  /\ symbols = defaultSymbols
  /\ files = NoFiles
  /\ result = NoResult

SpecAssets == InitAssets /\ [][Next]_vars

----------------------------------------------------------------------------
\* SpecGlyphs: Render of invoices whose title, item and currency may hold a
\* rune the font cannot draw.

GlyphTexts == {<<"R">>, <<"snow">>}

GlyphInvoices ==
  {[BaseInvoice EXCEPT !.Title = title, !.Items = <<item>>, !.Currency = currency,
                       !.Note = note, !.Due = due] :
     title \in GlyphTexts, item \in GlyphTexts,
     currency \in {<<"E", "U", "R">>, <<"snow">>},
     note \in NoteValues, due \in DueValues}

InitGlyphs ==
  /\ pdf = createPDF
  /\ pc = "Render"
  /\ invoice \in GlyphInvoices
  /\ assets = NoAssets
  /\ row = 0
  /\ sum = 0
  /\ fullInvoiceId = <<>>
  /\ out = NoOutput
  /\ Idle
  /\ call = NoCall
  /\ first = NoCall
  /\ ncalls = 0
  /\ symbols = defaultSymbols
  /\ files = NoFiles
  /\ result = NoResult

SpecGlyphs == InitGlyphs /\ [][Next]_vars

----------------------------------------------------------------------------
\* SpecRows: Render of invoices with item descriptions of more than 40 bytes.

Repeat(c, n) == [k \in 1..n |-> c]

\* 41 narrow letters: one line of 246 in the 330 wide column.
OneLineItem == Repeat("a", 41)
\* Words of 15, 15 and 11 wide letters: 180, 180 and 132 wide, two lines.
TwoLineItem == Repeat("W", 15) \o <<" ">> \o Repeat("W", 15) \o <<" ">> \o Repeat("W", 11)
\* Three words of 27 wide letters, 324 each: three lines.
ThreeLineItem == Repeat("W", 27) \o <<" ">> \o Repeat("W", 27) \o <<" ">> \o Repeat("W", 27)

\* 41 spaces: longer than 40 bytes, without a word.
BlankItem == Repeat(" ", 41)

RowItems == {<<"A">>, OneLineItem, TwoLineItem, ThreeLineItem, BlankItem}

RowInvoices ==
  {[BaseInvoice EXCEPT !.Items = items, !.Note = note, !.Due = due] :
     items \in SeqsUpTo(RowItems, 2) \ {<<>>}, note \in NoteValues, due \in DueValues}

InitRows ==
  /\ pdf = createPDF
  /\ pc = "Render"
  /\ invoice \in RowInvoices
  /\ assets = NoAssets
  /\ row = 0
  /\ sum = 0
  /\ fullInvoiceId = <<>>
  /\ out = NoOutput
  /\ Idle
  /\ call = NoCall
  /\ first = NoCall
  /\ ncalls = 0
  /\ symbols = defaultSymbols
  /\ files = NoFiles
  /\ result = NoResult

SpecRows == InitRows /\ [][Next]_vars

----------------------------------------------------------------------------
\* SpecTotal: models.CalculateTotal applied to one invoice.

\* The loop of CalculateTotal over the first n items.
RECURSIVE ItemsSubtotal(_, _)
ItemsSubtotal(inv, n) ==
  IF n = 0 THEN 0
  ELSE LET quantity == IF n <= Len(inv.Quantities) THEN inv.Quantities[n] ELSE 1
           rate == IF n <= Len(inv.Rates) THEN inv.Rates[n] ELSE 0
       IN ItemsSubtotal(inv, n - 1) + RowTotal(quantity, rate)

\* The same loop run over the rates instead of the items.
RECURSIVE RatesSubtotal(_, _)
RatesSubtotal(inv, n) ==
  IF n = 0 THEN 0
  ELSE LET quantity == IF n <= Len(inv.Quantities) THEN inv.Quantities[n] ELSE 1
       IN RatesSubtotal(inv, n - 1) + RowTotal(quantity, inv.Rates[n])

\* The total for a subtotal: the discount comes off, the tax is taken from
\* the discounted amount unless the invoice is tax exempt.
TotalFor(inv, subtotal) ==
  LET discountAmount == MulRate(subtotal, inv.Discount)
      afterDiscount == subtotal - discountAmount
  IN IF ~inv.TaxExempt
     THEN afterDiscount + MulRate(afterDiscount, inv.Tax)
     ELSE afterDiscount

\* Mutant of CalculateTotal: the subtotal is summed over the rates.
CalculateTotal_OverRates(inv) == TotalFor(inv, RatesSubtotal(inv, Len(inv.Rates)))

\* CalculateTotal(invoice).
CalculateTotal(inv) == TotalFor(inv, ItemsSubtotal(inv, Len(inv.Items)))

TestRates == <<10000, 20000, 30000>>
TestQuantities == <<1, 1, 1>>

TotalInvoices ==
  {[EmptyInvoice EXCEPT
      !.Items = ItemsOf(n), !.Quantities = qs, !.Rates = rs, !.Tax = tax,
      !.TaxExempt = exempt, !.Discount = discount] :
     n \in 0..MaxItems, qs \in {<<>>, <<2>>, TestQuantities},
     rs \in {<<>>, <<5000>>, TestRates},
     tax \in TaxValues, discount \in DiscountValues, exempt \in BOOLEAN}

InitTotal ==
  /\ pdf = createPDF
  /\ pc = "CalculateTotal"
  /\ invoice \in TotalInvoices
  /\ assets = NoAssets
  /\ row = 0
  /\ sum = 0
  /\ fullInvoiceId = <<>>
  /\ out = NoOutput
  /\ Idle
  /\ call = NoCall
  /\ first = NoCall
  /\ ncalls = 0
  /\ symbols = defaultSymbols
  /\ files = NoFiles
  /\ result = NoResult

DoCalculateTotal ==
  /\ pc = "CalculateTotal"
  /\ result' = [op |-> "CalculateTotal", arg |-> <<>>, err |-> FALSE,
                val |-> CalculateTotal(invoice)]
  /\ pc' = "returned"
  /\ UNCHANGED <<pdf, renderVars, wrapVars, symbols, files>>

SpecTotal == InitTotal /\ [][DoCalculateTotal]_vars

----------------------------------------------------------------------------
\* A Render call as a record of its locals, and its steps as a function of
\* that record: the page, the row index and the subtotal belong to the call.

RenderRecord(inv) ==
  [pc |-> "Render", pdf |-> createPDF, invoice |-> inv, row |-> 0, sum |-> 0,
   fullInvoiceId |-> <<>>, out |-> NoOutput]

AfterRowsOf(inv) == IF inv.Note # <<>> THEN "writeNotes" ELSE "writeTotals"

\* The records one step of the call r can lead to, with the files a and the
\* symbol table of the currency service.
RenderSteps(r, a, table) ==
  LET inv == r.invoice
  IN CASE r.pc = "Render" ->
            LET e == setupFonts(a.fonts.regular, a.fonts.bold)
            IN {[r EXCEPT !.pdf = createPDF,
                          !.out = [written |-> FALSE, err |-> e.err, names |-> e.names],
                          !.fullInvoiceId = IF inv.IdSuffix # <<>>
                                            THEN inv.Id \o inv.IdSuffix ELSE inv.Id,
                          !.pc = IF e.err = "none" THEN "writeLogo" ELSE "failed"]}
       [] r.pc = "writeLogo" ->
            {[r EXCEPT !.pdf = writeLogo(r.pdf, inv.Logo, inv.From, a.logo),
                       !.pc = "writeTitle"]}
       [] r.pc = "writeTitle" ->
            {[r EXCEPT !.pdf = writeTitle(r.pdf, inv.Title, r.fullInvoiceId, inv.Date),
                       !.pc = "writeBillTo"]}
       [] r.pc = "writeBillTo" ->
            {[r EXCEPT !.pdf = writeBillTo(r.pdf, inv.To), !.pc = "writeHeaderRow"]}
       [] r.pc = "writeHeaderRow" ->
            {[r EXCEPT !.pdf = writeHeaderRow(r.pdf), !.row = 1, !.sum = 0,
                       !.pc = IF Len(inv.Items) > 0 THEN "writeRow" ELSE AfterRowsOf(inv)]}
       [] r.pc = "writeRow" ->
            LET q == IF Len(inv.Quantities) >= r.row THEN inv.Quantities[r.row] ELSE 1
                rate == IF Len(inv.Rates) >= r.row THEN inv.Rates[r.row] ELSE 0
            IN {[r EXCEPT !.pdf = writeRow(r.pdf, inv.Items[r.row], q, rate,
                                           inv.Currency, table),
                          !.sum = r.sum + RowTotal(q, rate),
                          !.row = r.row + 1,
                          !.pc = IF r.row = Len(inv.Items) THEN AfterRowsOf(inv)
                                 ELSE "writeRow"]}
       [] r.pc = "writeNotes" ->
            {[r EXCEPT !.pdf = writeNotes(r.pdf, inv.Note), !.pc = "writeTotals"]}
       [] r.pc = "writeTotals" ->
            {[r EXCEPT !.pdf = writeTotals(r.pdf, r.sum, MulRate(r.sum, inv.Tax),
                                            MulRate(r.sum, inv.Discount), inv.TaxExempt,
                                            inv.Currency, table),
                       !.pc = IF inv.Due # <<>> THEN "writeDueDate" ELSE "writeFooter"]}
       [] r.pc = "writeDueDate" ->
            {[r EXCEPT !.pdf = writeDueDate(r.pdf, inv.Due), !.pc = "writeFooter"]}
       [] r.pc = "writeFooter" ->
            {[r EXCEPT !.pdf = writeFooter(r.pdf, r.fullInvoiceId, inv.Footer),
                       !.pc = "write"]}
       [] r.pc = "write" ->
            {[r EXCEPT !.out = [written |-> ok,
                                err |-> IF ok THEN "none" ELSE "write failed",
                                names |-> {}],
                       !.pc = IF ok THEN "done" ELSE "failed"] : ok \in BOOLEAN}
       [] OTHER -> {}

\* The call r run on its own up to the final write.
RECURSIVE RunAlone(_, _, _)
RunAlone(r, a, table) ==
  IF r.pc \in {"write", "done", "failed", "idle"} THEN r
  ELSE RunAlone(CHOOSE n \in RenderSteps(r, a, table) : TRUE, a, table)

----------------------------------------------------------------------------
\* SpecGenerate: the generate command, from its flags to the file it writes.

pdfSuffix == <<".", "p", "d", "f">>

HasSuffix(str, suffix) ==
  /\ Len(str) >= Len(suffix)
  /\ SubSeq(str, Len(str) - Len(suffix) + 1, Len(str)) = suffix

\* strings.TrimSuffix
TrimSuffix(str, suffix) ==
  IF HasSuffix(str, suffix) THEN SubSeq(str, 1, Len(str) - Len(suffix)) ELSE str

\* The file name the generate command writes to.
OutputFile(flag, fullId) ==
  IF flag.value # DefaultOutputName
  THEN TrimSuffix(flag.value, pdfSuffix) \o pdfSuffix
  ELSE fullId \o pdfSuffix

\* Values given to --output.
OutputNames ==
  {DefaultOutputName, <<"a">>, <<"a">> \o pdfSuffix, <<"a">> \o pdfSuffix \o pdfSuffix,
   <<"i", "n", "v", "o", "i", "c", "e">>}

OutputFlags == {DefaultOutput} \cup {[value |-> v, changed |-> TRUE] : v \in OutputNames}

GenerateInvoices ==
  {[BaseInvoice EXCEPT !.Id = id, !.IdSuffix = suffix] :
     id \in {<<"7">>, <<"2", "0", "2", "4">>}, suffix \in {<<>>, <<"-", "R">>}}

InitGenerate ==
  /\ pdf = createPDF
  /\ pc = "Render"
  /\ invoice \in GenerateInvoices
  /\ assets \in AssetsFor(<<>>)
  /\ output \in OutputFlags
  /\ other = NoOther
  /\ row = 0
  /\ sum = 0
  /\ fullInvoiceId = <<>>
  /\ out = NoOutput
  /\ call = NoCall
  /\ first = NoCall
  /\ ncalls = 0
  /\ symbols = defaultSymbols
  /\ files = NoFiles
  /\ result = NoResult

\* generateCmd.RunE: the page is set up, the fonts are loaded and the sections
\* are drawn in the order of Render (the steps above); DoGenerate is its last
\* part, which names the output file, writes the page to it and, on success,
\* sets the output variable to the file name used.
DoGenerate ==
  /\ pc = "write"
  /\ LET outputFile == OutputFile(output, fullInvoiceId)
     IN \E ok \in BOOLEAN :
          /\ out' = [written |-> ok, err |-> IF ok THEN "none" ELSE "write failed",
                      names |-> {}]
          /\ result' = [op |-> "generate", arg |-> output, err |-> ~ok,
                        val |-> outputFile]
          /\ pc' = IF ok THEN "generated" ELSE "failed"
          /\ output' = IF ok THEN [output EXCEPT !.value = outputFile] ELSE output
  /\ UNCHANGED <<pdf, invoice, row, sum, fullInvoiceId, assets, other, wrapVars,
                 symbols, files>>

\* The totals step of the generate command. src/ holds two writeTotals of the
\* main package, pdf.go:310 and part_000:393 (the latter reads file.TaxExempt
\* and draws as the renderer's); either can be the one that is built.
MainWriteTotalsVersions == {"pdf.go", "part_000"}

DoMainWriteTotals ==
  /\ pc = "writeTotals"
  /\ \E version \in MainWriteTotalsVersions :
       pdf' = IF version = "pdf.go"
              THEN mainWriteTotals(pdf, sum, MulRate(sum, invoice.Tax),
                                   MulRate(sum, invoice.Discount), invoice.Currency,
                                   symbols)
              ELSE writeTotals(pdf, sum, MulRate(sum, invoice.Tax),
                               MulRate(sum, invoice.Discount), invoice.TaxExempt,
                               invoice.Currency, symbols)
  /\ pc' = IF invoice.Due # <<>> THEN "writeDueDate" ELSE "writeFooter"
  /\ UNCHANGED <<renderVars, wrapVars, currencyVars>>

NextGenerate ==
  \/ RenderStart
  \/ DoWriteLogo
  \/ DoWriteTitle
  \/ DoWriteBillTo
  \/ DoWriteHeaderRow
  \/ DoWriteRow
  \/ DoWriteNotes
  \/ DoMainWriteTotals
  \/ DoWriteDueDate
  \/ DoWriteFooter
  \/ DoGenerate

SpecGenerate == InitGenerate /\ [][NextGenerate]_vars

----------------------------------------------------------------------------
\* SpecContact: renders of footers whose phone, IBAN, BIC, e-mail and website
\* are present or not, with contact lines over 30 bytes and registration
\* texts of several lines.

PhoneTexts == {<<>>, <<"4", "9">>}
IbanTexts == {<<>>, <<"D", "E", "1", "2">>}
BicTexts == {<<>>, <<"A", "B">>}
EmailTexts == {<<>>, <<"m", "@", "f">>, Repeat("m", 16), Repeat("m", 31)}
WebsiteTexts == {<<>>, <<"w", ".", "f">>, Repeat("w", 16)}
\* One word, and three words of 84 each with `\n` between them: the 150 wide
\* column holds one such word to the line.
BlockTexts ==
  {<<"H">>,
   Repeat("W", 7) \o <<"\\", "n">> \o Repeat("W", 7) \o <<"\\", "n">> \o Repeat("W", 7)}

ContactFooters ==
  {[SampleFooter EXCEPT
      !.Phone = ph, !.BankIban = ib, !.BankBic = bc, !.Email = e, !.Website = w,
      !.RegistrationInfo = ri] :
     ph \in PhoneTexts, ib \in IbanTexts, bc \in BicTexts, e \in EmailTexts,
     w \in WebsiteTexts, ri \in BlockTexts}

InitContact ==
  /\ pdf = createPDF
  /\ pc = "Render"
  /\ \E f \in ContactFooters : invoice = [BaseInvoice EXCEPT !.Footer = f]
  /\ row = 0
  /\ sum = 0
  /\ fullInvoiceId = <<>>
  /\ out = NoOutput
  /\ Idle
  /\ assets \in {a \in AssetsFor(<<>>) : a.fonts.bold = "ok"}
  /\ call = NoCall
  /\ first = NoCall
  /\ ncalls = 0
  /\ symbols = defaultSymbols
  /\ files = NoFiles
  /\ result = NoResult

SpecContact == InitContact /\ [][Next]_vars

----------------------------------------------------------------------------
\* SpecSigned: renders of invoices whose quantity, rate, tax and discount can
\* be negative (the flags and the import take any number).

SignedQuantities == {<<-1>>, <<2>>}
SignedRates == {<<5000>>, <<-5000>>}
SignedPercents == {-10, 0, 19}

SignedInvoices ==
  {[BaseInvoice EXCEPT
      !.Quantities = qs, !.Rates = rs, !.Tax = tax, !.Discount = discount,
      !.TaxExempt = exempt] :
     qs \in SignedQuantities, rs \in SignedRates, tax \in SignedPercents,
     discount \in SignedPercents, exempt \in BOOLEAN}

InitSigned ==
  /\ pdf = createPDF
  /\ pc = "Render"
  /\ invoice \in SignedInvoices
  /\ assets = NoAssets
  /\ row = 0
  /\ sum = 0
  /\ fullInvoiceId = <<>>
  /\ out = NoOutput
  /\ Idle
  /\ call = NoCall
  /\ first = NoCall
  /\ ncalls = 0
  /\ symbols = defaultSymbols
  /\ files = NoFiles
  /\ result = NoResult

SpecSigned == InitSigned /\ [][Next]_vars

----------------------------------------------------------------------------
\* SpecLong: renders of invoices of one, two and many items. Render has one
\* page: createPDF adds it and no section adds another.

LongInvoices ==
  {[BaseInvoice EXCEPT !.Items = Repeat(<<"A">>, n), !.Note = note, !.Due = due] :
     n \in {1, 2, ManyItems}, note \in NoteValues, due \in DueValues}

InitLong ==
  /\ pdf = createPDF
  /\ pc = "Render"
  /\ invoice \in LongInvoices
  /\ assets = NoAssets
  /\ row = 0
  /\ sum = 0
  /\ fullInvoiceId = <<>>
  /\ out = NoOutput
  /\ Idle
  /\ call = NoCall
  /\ first = NoCall
  /\ ncalls = 0
  /\ symbols = defaultSymbols
  /\ files = NoFiles
  /\ result = NoResult

SpecLong == InitLong /\ [][Next]_vars

----------------------------------------------------------------------------
\* SpecConcurrent: two Render calls on one renderer, their steps interleaved
\* in every order. The calls share the renderer's currency service and the
\* files on disk; the page, the row index and the subtotal are locals.

ConcurrentInvoices ==
  {BaseInvoice,
   [BaseInvoice EXCEPT !.Id = <<"8">>, !.Title = <<"W", "W">>, !.Items = ItemsOf(2),
                       !.Quantities = <<1, 2>>, !.Rates = <<20000>>, !.Note = <<>>,
                       !.Currency = <<"u", "s", "d">>, !.TaxExempt = TRUE],
   [BaseInvoice EXCEPT !.Id = <<"9">>, !.From = <<"F", "\\", "n", "x">>,
                       !.Items = <<>>, !.Due = <<>>, !.Discount = 10]}

InitConcurrent ==
  /\ pdf = createPDF
  /\ pc = "Render"
  /\ invoice \in ConcurrentInvoices
  /\ \E inv \in ConcurrentInvoices : other = RenderRecord(inv)
  /\ assets \in {a \in AssetsFor(<<>>) : a.fonts.bold = "ok"}
  /\ output = DefaultOutput
  /\ row = 0
  /\ sum = 0
  /\ fullInvoiceId = <<>>
  /\ out = NoOutput
  /\ call = NoCall
  /\ first = NoCall
  /\ ncalls = 0
  /\ symbols = defaultSymbols
  /\ files = NoFiles
  /\ result = NoResult

\* Mutant of OwnPage: the two calls draw with one cursor.
OwnPage_SharedCursor(p, o) == [p EXCEPT !.x = o.pdf.x, !.y = o.pdf.y]

\* The page of a call after a step of the other call o: pdf is a local of
\* Render, made by createPDF at its start, and no other call holds it.
OwnPage(p, o) == p

\* One step of the second call.
OtherStep ==
  /\ \E n \in RenderSteps(other, assets, symbols) :
       /\ other' = n
       /\ pdf' = OwnPage(pdf, n)
  /\ UNCHANGED <<pc, invoice, row, sum, fullInvoiceId, out, assets, output,
                 wrapVars, currencyVars>>

NextConcurrent ==
  \/ RenderStart
  \/ DoWriteLogo
  \/ DoWriteTitle
  \/ DoWriteBillTo
  \/ DoWriteHeaderRow
  \/ DoWriteRow
  \/ DoWriteNotes
  \/ DoWriteTotals
  \/ DoWriteDueDate
  \/ DoWriteFooter
  \/ DoWrite
  \/ OtherStep

SpecConcurrent == InitConcurrent /\ [][NextConcurrent]_vars

----------------------------------------------------------------------------
\* Properties of Render.

\* The cells a section has drawn, in drawing order.
CellsOf(sec) == SelectSeq(pdf.drawn, LAMBDA c : c.sec = sec)

TotalsCells == CellsOf("writeTotals")

\* The lines of the totals block: the labels and the notice, in order.
TotalsLines ==
  LET ls == SelectSeq(TotalsCells, LAMBDA c : c.kind \in {"label", "notice"})
  IN [k \in 1..Len(ls) |-> ls[k].text]

TotalsDrawn == TotalsCells # <<>>

LineDrawn(label) == \E k \in 1..Len(TotalsLines) : TotalsLines[k] = label

\* The amounts Render hands to writeTotals.
TaxAmount == MulRate(sum, invoice.Tax)
DiscountAmount == MulRate(sum, invoice.Discount)

\* The number printed in the last cell of the totals block, in hundredths.
TotalPrinted == TotalsCells[Len(TotalsCells)].val

\* C1: the total drawn by the totals block is subtotal - subtotal*discount,
\* plus subtotal*tax unless the invoice is tax exempt, the tax being taken
\* from the raw subtotal: 600 with discount 0.1 and tax 0.19 gives 654.00, and
\* an exempt 250 with tax 0.19 gives 250.00.
TotalFormula ==
  TotalsDrawn =>
    /\ TotalsCells[Len(TotalsCells) - 1].text = totalLabel
    /\ TotalPrinted =
         FormatFloat2(sum - (sum * invoice.Discount) \div 100
                      + (IF invoice.TaxExempt THEN 0 ELSE (sum * invoice.Tax) \div 100))
    /\ (sum = 6000000 /\ invoice.Discount = 10 /\ invoice.Tax = 19
        /\ ~invoice.TaxExempt) => TotalPrinted = 65400
    /\ (sum = 2500000 /\ invoice.Discount = 0 /\ invoice.Tax = 19
        /\ invoice.TaxExempt) => TotalPrinted = 25000

TotalFormulaWitness ==
  /\ TotalsDrawn
  /\ sum = 6000000
  /\ invoice.Discount = 10
  /\ invoice.Tax = 19
  /\ ~invoice.TaxExempt
  /\ TotalPrinted = 65400

\* C2: the tax line is drawn exactly when the invoice is not tax exempt and
\* the tax amount is positive, the legal notice exactly when the invoice is
\* tax exempt, and never both.
TaxLineOrNotice ==
  TotalsDrawn =>
    /\ LineDrawn(taxLabel) <=> (~invoice.TaxExempt /\ TaxAmount > 0)
    /\ LineDrawn(taxExemptNotice) <=> invoice.TaxExempt
    /\ ~(LineDrawn(taxLabel) /\ LineDrawn(taxExemptNotice))

TaxLineOrNoticeWitness ==
  /\ TotalsDrawn
  /\ invoice.TaxExempt
  /\ TaxAmount > 0
  /\ LineDrawn(taxExemptNotice)
  /\ ~LineDrawn(taxLabel)

\* C3: the subtotal line is the first line of the totals block and the total
\* line the last, the discount line is drawn exactly when the discount amount
\* is positive, and tax 0.19, discount 0, not exempt, with a positive subtotal
\* shows exactly subtotal, tax, total.
TotalsLineOrder ==
  TotalsDrawn =>
    /\ TotalsLines[1] = subtotalLabel
    /\ TotalsLines[Len(TotalsLines)] = totalLabel
    /\ \A k \in 1..Len(TotalsLines) :
         /\ TotalsLines[k] = subtotalLabel => k = 1
         /\ TotalsLines[k] = totalLabel => k = Len(TotalsLines)
    /\ LineDrawn(discountLabel) <=> DiscountAmount > 0
    /\ (invoice.Tax = 19 /\ invoice.Discount = 0 /\ ~invoice.TaxExempt /\ sum > 0)
         => TotalsLines = <<subtotalLabel, taxLabel, totalLabel>>

TotalsLineOrderWitness ==
  /\ TotalsDrawn
  /\ invoice.Tax = 19
  /\ invoice.Discount = 0
  /\ ~invoice.TaxExempt
  /\ sum > 0
  /\ Len(TotalsLines) = 3

\* The rows of the item table: the cells of one kind, in drawing order.
RowCells(kind) == SelectSeq(CellsOf("writeRow"), LAMBDA c : c.kind = kind)

\* The item loop has ended.
RowsDone ==
  \/ pc \in {"writeNotes", "writeTotals", "writeDueDate", "writeFooter", "write", "done"}
  \/ pc = "failed" /\ out.err = "write failed"

\* The sum of quantity*rate over the item indices 1..n, with the defaults.
RECURSIVE SubtotalOf(_, _)
SubtotalOf(inv, n) ==
  IF n = 0 THEN 0
  ELSE SubtotalOf(inv, n - 1)
       + (IF n <= Len(inv.Quantities) THEN inv.Quantities[n] ELSE 1)
         * (IF n <= Len(inv.Rates) THEN inv.Rates[n] ELSE 0) * 100

\* C4: whatever the lengths of items, quantities and rates, one row is drawn
\* per item, with quantity 1 beyond the quantities and rate 0 beyond the
\* rates, and the subtotal sums quantity*rate over the item indices only
\* (three items, quantities [1], no rates: subtotal 0).
RowsAndSubtotal ==
  RowsDone =>
    /\ Len(RowCells("item")) = Len(invoice.Items)
    /\ Len(RowCells("quantity")) = Len(invoice.Items)
    /\ Len(RowCells("rate")) = Len(invoice.Items)
    /\ \A k \in 1..Len(invoice.Items) :
         /\ RowCells("item")[k].text = invoice.Items[k]
         /\ RowCells("quantity")[k].val =
              (IF k <= Len(invoice.Quantities) THEN invoice.Quantities[k] ELSE 1)
         /\ RowCells("rate")[k].val =
              (IF k <= Len(invoice.Rates) THEN invoice.Rates[k] ELSE 0)
    /\ sum = SubtotalOf(invoice, Len(invoice.Items))
    /\ (Len(invoice.Items) = 3 /\ invoice.Quantities = <<1>> /\ invoice.Rates = <<>>)
         => sum = 0

RowsAndSubtotalWitness ==
  /\ RowsDone
  /\ Len(invoice.Items) = 3
  /\ invoice.Quantities = <<1>>
  /\ invoice.Rates = <<>>
  /\ Len(RowCells("amount")) = 3
  /\ sum = 0

FooterCells == CellsOf("writeFooter")
FooterDrawn == FooterCells # <<>>

\* The footer cells of one kind.
FooterCellsOf(kind) == SelectSeq(FooterCells, LAMBDA c : c.kind = kind)

\* The lines writeMultilineText drew for a registration text with line breaks.
RegistrationLines == CellsOf("writeFooter.registration")

VatIdDrawn == FooterCellsOf("vat") # <<>>
RegistrationDrawn == FooterCellsOf("registration") # <<>> \/ RegistrationLines # <<>>

\* C11 (as claimed): the VAT id line is drawn exactly when showVatId is true
\* and vatId is non-empty, and the registration block exactly when
\* showRegistration is true and registrationInfo is non-empty.
FooterOptionalLines ==
  FooterDrawn =>
    /\ VatIdDrawn <=> (invoice.Footer.ShowVatId /\ invoice.Footer.VatId # <<>>)
    /\ RegistrationDrawn <=>
         (invoice.Footer.ShowRegistration /\ invoice.Footer.RegistrationInfo # <<>>)

\* The registration text has something to draw: it is one line (no line break
\* after the escaped breaks are replaced), or it holds at least one word.
RegistrationHasText(footer) ==
  LET f == ReplaceEscapedNewlines(footer.RegistrationInfo)
  IN footer.RegistrationInfo # <<>>
     /\ (~ContainsNewline(f) \/ \E k \in 1..Len(f) : ~IsSpace(f[k]))

\* C11 (amended): the VAT id line is drawn exactly when showVatId is true and
\* vatId is non-empty; the registration block is drawn exactly when
\* showRegistration is true and registrationInfo is non-empty and, if it holds
\* a line break, also holds a word. A true flag with an empty string and a
\* false flag with a non-empty string draw nothing.
FooterOptionalLinesWithText ==
  FooterDrawn =>
    /\ VatIdDrawn <=> (invoice.Footer.ShowVatId /\ invoice.Footer.VatId # <<>>)
    /\ RegistrationDrawn <=>
         (invoice.Footer.ShowRegistration /\ RegistrationHasText(invoice.Footer))
    /\ VatIdDrawn => FooterCellsOf("vat")[1].text = invoice.Footer.VatId

FooterOptionalLinesWithTextWitness ==
  /\ FooterDrawn
  /\ invoice.Footer.ShowRegistration
  /\ invoice.Footer.RegistrationInfo = <<"\\", "n">>
  /\ ~RegistrationDrawn
  /\ ~invoice.Footer.ShowVatId
  /\ invoice.Footer.VatId # <<>>
  /\ ~VatIdDrawn

\* The text of the footer's zip/city cell.
ZipCityLine == FooterCellsOf("zipCity")[1].text

\* C20: the zip/city line is "zip city" when both are non-empty, the zip
\* alone or the city alone when only one is non-empty, and empty when both
\* are empty; for a zip and a city without spaces at their ends it neither
\* starts nor ends with a space.
ZipCityJoined ==
  FooterDrawn =>
    LET z == invoice.Footer.Zip
        c == invoice.Footer.City
    IN /\ Len(FooterCellsOf("zipCity")) = 1
       /\ (z # <<>> /\ c # <<>>) => ZipCityLine = z \o <<" ">> \o c
       /\ (z # <<>> /\ c = <<>>) => ZipCityLine = z
       /\ (z = <<>> /\ c # <<>>) => ZipCityLine = c
       /\ (z = <<>> /\ c = <<>>) => ZipCityLine = <<>>
       /\ ZipCityLine # <<>> =>
            ZipCityLine[1] # " " /\ ZipCityLine[Len(ZipCityLine)] # " "

ZipCityJoinedWitness ==
  /\ FooterDrawn
  /\ invoice.Footer.Zip # <<>>
  /\ invoice.Footer.City = <<>>
  /\ ZipCityLine = invoice.Footer.Zip

\* The texts of the contact line: the one cell, or the lines of the wrapped
\* contact text.
ContactTexts ==
  LET cs == FooterCellsOf("contact") \o CellsOf("writeFooter.contact")
  IN [k \in 1..Len(cs) |-> cs[k].text]

HasRune(s, c) == \E k \in 1..Len(s) : s[k] = c

\* The footer cells of a kind are exactly one cell holding the prefix and the
\* value when the value is non-empty, and none when it is empty.
PrefixedCell(kind, prefix, value) ==
  LET cs == FooterCellsOf(kind)
  IN IF value = <<>> THEN cs = <<>>
     ELSE Len(cs) = 1 /\ cs[1].text = prefix \o value

\* C21: "Tel.: ", "IBAN: " and "BIC: " are drawn only with a non-empty phone,
\* IBAN or BIC after them, the contact line holds " | " only when the e-mail
\* and the website are both non-empty, and with only one of the two that one
\* is drawn alone.
NoDanglingLabel ==
  FooterDrawn =>
    LET f == invoice.Footer
    IN /\ PrefixedCell("phone", phonePrefix, f.Phone)
       /\ PrefixedCell("iban", ibanPrefix, f.BankIban)
       /\ PrefixedCell("bic", bicPrefix, f.BankBic)
       /\ \A k \in 1..Len(pdf.drawn) :
            pdf.drawn[k].text \notin {phonePrefix, ibanPrefix, bicPrefix}
       /\ (\E k \in 1..Len(ContactTexts) : HasRune(ContactTexts[k], "|")) =>
            (f.Email # <<>> /\ f.Website # <<>>)
       /\ (f.Email # <<>> /\ f.Website = <<>>) => ContactTexts = <<f.Email>>
       /\ (f.Email = <<>> /\ f.Website # <<>>) => ContactTexts = <<f.Website>>

NoDanglingLabelWitness ==
  /\ FooterDrawn
  /\ invoice.Footer.Phone = <<>>
  /\ invoice.Footer.BankIban # <<>>
  /\ invoice.Footer.BankBic = <<>>
  /\ invoice.Footer.Email = <<>>
  /\ invoice.Footer.Website # <<>>
  /\ ContactTexts = <<invoice.Footer.Website>>
  /\ FooterCellsOf("phone") = <<>>

\* C22: the first lines of the three footer columns (company name, address,
\* bank header) are drawn at the same Y, whatever the number of lines drawn
\* in the other columns.
ColumnsShareStart ==
  FooterDrawn =>
    /\ Len(FooterCellsOf("company")) = 1
    /\ Len(FooterCellsOf("address")) = 1
    /\ Len(FooterCellsOf("bankHeader")) = 1
    /\ FooterCellsOf("address")[1].y = FooterCellsOf("company")[1].y
    /\ FooterCellsOf("bankHeader")[1].y = FooterCellsOf("company")[1].y

ColumnsShareStartWitness ==
  /\ FooterDrawn
  /\ Len(RegistrationLines) = 3
  /\ Len(CellsOf("writeFooter.contact")) = 2
  /\ FooterCellsOf("bankHeader")[1].y = FooterCellsOf("company")[1].y

\* The cells a step has added to the page.
NewlyDrawn == SubSeq(pdf'.drawn, Len(pdf.drawn) + 1, Len(pdf'.drawn))

\* C23: the totals block starts 20 below the cursor Y left by the section
\* before it, its labels at X 350 and its values at X 470, and the footer rule
\* is at the fixed Y 770.
TotalsBelowCursor ==
  [][/\ pc = "writeTotals" /\ pc' # "writeTotals" =>
          /\ NewlyDrawn # <<>>
          /\ NewlyDrawn[1].y = pdf.y + 20
          /\ \A k \in 1..Len(NewlyDrawn) :
               /\ NewlyDrawn[k].kind \in {"label", "notice"} => NewlyDrawn[k].x = 350
               /\ NewlyDrawn[k].kind = "value" => NewlyDrawn[k].x = 470
     /\ pc = "writeFooter" /\ pc' # "writeFooter" =>
          NewlyDrawn[1].kind = "rule" /\ NewlyDrawn[1].y = 770]_vars

\* C26 (as claimed): the total CalculateTotal returns for the invoice is the
\* total the totals block prints, compared as printed with two decimals.
TotalsAgree ==
  TotalsDrawn => TotalPrinted = FormatFloat2(CalculateTotal(invoice))

\* The number printed on the totals line of a label, 0 when the line is not
\* drawn.
PrintedOn(label) ==
  LET at == {k \in 1..(Len(TotalsCells) - 1) :
               TotalsCells[k].kind = "label" /\ TotalsCells[k].text = label}
  IN IF at = {} THEN 0 ELSE TotalsCells[(CHOOSE k \in at : TRUE) + 1].val

\* C29 (as claimed): the value of the total line is the value of the subtotal
\* line, minus the value of the discount line when it is drawn, plus the value
\* of the tax line when it is drawn.
TotalsSelfConsistent ==
  TotalsDrawn =>
    PrintedOn(totalLabel) =
      (PrintedOn(subtotalLabel) - PrintedOn(discountLabel)) + PrintedOn(taxLabel)

\* The sections of the body of the page.
BodySections == {"writeRow", "writeNotes", "writeTotals", "writeDueDate"}

\* C30 (as claimed): every item row, note line, totals line and the due-date
\* line is drawn at a Y smaller than 770, the Y of the footer rule.
BodyAboveFooter ==
  \A k \in 1..Len(pdf.drawn) :
    pdf.drawn[k].sec \in BodySections => pdf.drawn[k].y < 770

\* The steps of a render in the order of the calls in Render.
Steps ==
  <<"Render", "writeLogo", "writeTitle", "writeBillTo", "writeHeaderRow", "writeRow",
    "writeNotes", "writeTotals", "writeDueDate", "writeFooter", "write", "done">>

Rank(step) == CHOOSE k \in 1..Len(Steps) : Steps[k] = step

\* The section that drew a cell.
SectionOf(c) ==
  IF c.sec \in {"writeFooter.registration", "writeFooter.contact"}
  THEN "writeFooter" ELSE c.sec

\* C12: a render goes through logo/from, title, bill-to, column headers, the
\* item rows in index order, notes (exactly when the note is non-empty),
\* totals, due date (exactly when due is non-empty) and footer, each at most
\* once and in this order, and the output is written only after the footer.
SectionOrder ==
  [][/\ pc' # "failed" =>
          \/ Rank(pc') > Rank(pc)
          \/ pc = "writeRow" /\ pc' = "writeRow"
     /\ pc = "writeRow" => row' = row + 1 /\ row \in 1..Len(invoice.Items)
     /\ pc = "writeLogo" => pc' = "writeTitle"
     /\ pc = "writeTitle" => pc' = "writeBillTo"
     /\ pc = "writeBillTo" => pc' = "writeHeaderRow"
     /\ pc = "writeHeaderRow" =>
          pc' = IF invoice.Items # <<>> THEN "writeRow"
                ELSE IF invoice.Note # <<>> THEN "writeNotes" ELSE "writeTotals"
     /\ (pc = "writeRow" /\ pc' # "writeRow") =>
          /\ row = Len(invoice.Items)
          /\ pc' = IF invoice.Note # <<>> THEN "writeNotes" ELSE "writeTotals"
     /\ pc = "writeNotes" => pc' = "writeTotals"
     /\ pc = "writeTotals" =>
          pc' = IF invoice.Due # <<>> THEN "writeDueDate" ELSE "writeFooter"
     /\ pc = "writeDueDate" => pc' = "writeFooter"
     /\ pc = "writeFooter" => pc' = "write"
     /\ out'.written => pc = "write" /\ pc' = "done"
     /\ \A k \in 1..Len(pdf'.drawn) :
          /\ k > Len(pdf.drawn) /\ pc # "Render" => SectionOf(pdf'.drawn[k]) = pc
          /\ k > 1 => Rank(SectionOf(pdf'.drawn[k - 1])) <= Rank(SectionOf(pdf'.drawn[k]))
    ]_vars

SectionOrderWitness ==
  /\ pc = "done"
  /\ out.written
  /\ invoice.Note # <<>>
  /\ invoice.Due # <<>>
  /\ Len(invoice.Items) = 2
  /\ \A k \in 2..10 : \E j \in 1..Len(pdf.drawn) : SectionOf(pdf.drawn[j]) = Steps[k]

\* A font file does not exist.
FontsMissing == assets.fonts.regular = "missing" \/ assets.fonts.bold = "missing"

\* C13: when the regular or the bold font file is missing, the render returns
\* an error that names both font paths, runs no section renderer and writes
\* nothing.
MissingFontsFailFast ==
  (FontsMissing /\ pc # "Render") =>
    /\ pc = "failed"
    /\ out.err = "fonts missing"
    /\ out.names = {InterRegularFont, InterBoldFont}
    /\ ~out.written
    /\ pdf = createPDF

MissingFontsFailFastWitness ==
  /\ assets.fonts.regular = "corrupt"
  /\ assets.fonts.bold = "missing"
  /\ pc = "failed"
  /\ out.names = {InterRegularFont, InterBoldFont}

\* The logo file cannot be opened or decoded, or pdf.Image refuses it.
BadLogo == invoice.Logo # <<>> /\ assets.logo.kind \in {"unreadable", "rejected"}

\* Every section from writeLogo to writeFooter that the invoice calls for
\* has drawn.
AllSectionsDrawn ==
  \A k \in 2..10 :
    \/ Steps[k] = "writeNotes" /\ invoice.Note = <<>>
    \/ Steps[k] = "writeDueDate" /\ invoice.Due = <<>>
    \/ Steps[k] = "writeRow" /\ invoice.Items = <<>>
    \/ \E j \in 1..Len(pdf.drawn) : SectionOf(pdf.drawn[j]) = Steps[k]

\* C14: a logo that cannot be opened, decoded or added never fails the
\* render: the from block is drawn where it is drawn without a logo, every
\* later section is rendered, and the only errors are those of the fonts and
\* of the final write.
BadLogoSkipped ==
  (BadLogo /\ pc \notin {"Render", "writeLogo"}) =>
    /\ pc = "failed" =>
         \/ out.err = "write failed"
         \/ out.err # "none" /\ pdf = createPDF
    /\ (pc # "failed" \/ out.err = "write failed") =>
         /\ CellsOf("writeLogo")[1].kind = "first"
         /\ CellsOf("writeLogo")[1].y = MarginTop
         /\ CellsOf("writeLogo") = writeLines(createPDF, "writeLogo",
              SplitLines(ReplaceEscapedNewlines(invoice.From)), 1, 14).drawn
              \o <<CellsOf("writeLogo")[Len(CellsOf("writeLogo"))]>>
    /\ (pc \in {"write", "done"} \/ (pc = "failed" /\ out.err = "write failed")) =>
         AllSectionsDrawn

BadLogoSkippedWitness ==
  /\ BadLogo
  /\ assets.logo.kind = "unreadable"
  /\ invoice.Note # <<>>
  /\ invoice.Due # <<>>
  /\ pc = "done"
  /\ out.written
  /\ AllSectionsDrawn
  /\ CellsOf("writeLogo")[1].y = MarginTop

\* A Cell call of the title, an item row or the totals returned an error.
SectionCellFailed ==
  \E k \in 1..Len(pdf.drawn) :
    /\ pdf.drawn[k].sec \in {"writeTitle", "writeRow", "writeTotals"}
    /\ CellError(pdf.drawn[k])

\* C15 (as claimed): a render in which a text-draw call of the title, an
\* item row or the totals returned an error returns an error.
SectionFailureReported ==
  (pc \in {"done", "failed"} /\ SectionCellFailed) => out.err # "none"

\* The index, among the cells of the item rows, of the first cell of the row
\* that cell j belongs to: the one after the previous row's amount cell.
RowStart(j) ==
  LET cs == CellsOf("writeRow")
      before == {k \in 1..(j - 1) : cs[k].kind = "amount"}
  IN IF before = {} THEN 1
     ELSE 1 + CHOOSE k \in before : \A m \in before : m <= k

\* C16 (as claimed): the quantity, rate and amount cells of a row whose
\* description is wrapped are drawn at the Y of the first line of the
\* description.
NumbersOnFirstLine ==
  LET cs == CellsOf("writeRow")
  IN \A j \in 1..Len(cs) :
       cs[j].kind \in {"quantity", "rate", "amount"} => cs[j].y = cs[RowStart(j)].y

\* C28 (as claimed): the quantity, rate and amount cells of a row are drawn at
\* a Y not smaller than the Y at which the row started, and the cursor Y after
\* the row is greater than that Y.
RowBelowItsStart ==
  [][row' = row + 1 =>
       /\ \A k \in 1..Len(NewlyDrawn) :
            NewlyDrawn[k].kind \in {"quantity", "rate", "amount"} =>
              NewlyDrawn[k].y >= pdf.y
       /\ pdf'.y > pdf.y]_vars

\* CalculateTotal has returned.
TotalReturned == pc = "returned" /\ result.op = "CalculateTotal"

\* An invoice built as in the documented test: rates and quantities of one
\* length, no item descriptions.
BuiltAsInTest == invoice.Items = <<>> /\ Len(invoice.Quantities) = Len(invoice.Rates)

TestAmounts == invoice.Rates = TestRates /\ invoice.Quantities = TestQuantities

OutputNameHonoured ==
  pc = "generated" =>
    LET flag == result.arg
    IN /\ ~flag.changed => result.val = invoice.Id \o invoice.IdSuffix \o pdfSuffix
       /\ flag.changed =>
            result.val = (IF HasSuffix(flag.value, pdfSuffix) THEN flag.value
                          ELSE flag.value \o pdfSuffix)

\* C18: however the steps of two Render calls interleave, the page each call
\* writes is the page it draws when it runs alone: it depends on the call's
\* invoice, the files and the symbol table only.
RenderIsolated ==
  /\ pc \in {"write", "done"} =>
       pdf = RunAlone(RenderRecord(invoice), assets, symbols).pdf
  /\ other.pc \in {"write", "done"} =>
       other.pdf = RunAlone(RenderRecord(other.invoice), assets, symbols).pdf

RenderIsolatedWitness ==
  /\ pc = "done"
  /\ other.pc = "writeTotals"
  /\ other.pdf.drawn # <<>>
  /\ other.invoice # invoice
  /\ pdf = RunAlone(RenderRecord(invoice), assets, symbols).pdf

----------------------------------------------------------------------------
\* Properties of the currency service.

\* The table the documented start-up gives: the first of currency_config.json,
\* config/currency.json and ~/.config/invoice/currency.json that loads is
\* merged into the defaults, and no later one.
StandardOverlays ==
  {LET r0 == LoadConfigOf(defaultSymbols, files[RootConfig], l0)
       r1 == LoadConfigOf(defaultSymbols, files[ConfigDir], l1)
       r2 == LoadConfigOf(defaultSymbols, files[HomeConfig], l2)
   IN IF ~r0.err THEN r0.table
      ELSE IF ~r1.err THEN r1.table
           ELSE IF ~r2.err THEN r2.table ELSE defaultSymbols :
     l0 \in LastWriters(files[RootConfig].symbols),
     l1 \in LastWriters(files[ConfigDir].symbols),
     l2 \in LastWriters(files[HomeConfig].symbols)}

\* C24 (as claimed): when the service has been made and nothing has been
\* called yet, its table is the default table overlaid by the first of the
\* three standard locations that loads.
InitOverlaysFirstLocation ==
  result.op = "none" => symbols \in StandardOverlays


\* Two runes that are equal or differ only in case.
SameRuneIgnoringCase(a, b) ==
  \/ a = b
  \/ \E k \in 1..Len(LowerRunes) :
       {a, b} = {LowerRunes[k], UpperRunes[k]}

\* Two codes that are equal up to the case of their letters.
SameIgnoringCase(c, d) ==
  /\ Len(c) = Len(d)
  /\ \A k \in 1..Len(c) : SameRuneIgnoringCase(c[k], d[k])

EUR == <<"E", "U", "R">>

\* C9: GetSymbol returns "" for the empty code; for a code that matches a key
\* of the table up to case it returns that key's symbol ("eur" and "EUR" give
\* the euro sign of the default table); for any other code it returns the
\* code as given followed by one space ("XYZ" gives "XYZ ").
GetSymbolContract ==
  result.op = "GetSymbol" =>
    /\ result.arg = <<>> => result.val = <<>>
    /\ \A key \in DOMAIN symbols :
         (result.arg # <<>> /\ SameIgnoringCase(result.arg, key))
           => result.val = symbols[key]
    /\ (result.arg # <<>>
          /\ ~\E key \in DOMAIN symbols : SameIgnoringCase(result.arg, key))
         => result.val = result.arg \o <<" ">>
    /\ (SameIgnoringCase(result.arg, EUR) /\ symbols[EUR] = defaultSymbols[EUR])
         => result.val = <<"euro">>
    /\ result.arg = <<"X", "Y", "Z">> => result.val = <<"X", "Y", "Z", " ">>

\* C9 witness: a lower-case code of the default table was looked up.
GetSymbolContractWitness ==
  /\ result.op = "GetSymbol"
  /\ result.arg = <<"e", "u", "r">>
  /\ result.val = <<"euro">>

\* C10 (as claimed): after construction no operation changes the table.
TableReadOnly == [][symbols' = symbols]_vars

\* C10 (amended): after construction the table is changed by no call of
\* GetSymbol, GetAvailableCurrencies or ExportConfig and by no LoadConfig
\* that returns an error; only a LoadConfig that succeeds changes it.
TableChangedOnlyByLoadConfig ==
  [][(result'.op = "LoadConfig" /\ ~result'.err) \/ symbols' = symbols]_vars

\* C10 witness: the table, overlaid at construction, was exported and then
\* read by GetSymbol.
TableChangedOnlyByLoadConfigWitness ==
  /\ result.op = "GetSymbol"
  /\ result.arg = <<"X", "b", "t">>
  /\ result.val = <<"B">>
  /\ files[ConfigDir] = StructuredFile(symbols)
  /\ files[ConfigDir].symbols # defaultSymbols

----------------------------------------------------------------------------
\* Properties of writeMultilineText.

\* The texts of the emitted lines, in order.
LineTexts(lines) == [k \in 1..Len(lines) |-> lines[k].text]

\* The words of a sequence of lines, read in order.
RECURSIVE WordsOfLines(_)
WordsOfLines(ls) ==
  IF ls = <<>> THEN <<>> ELSE Fields(Head(ls)) \o WordsOfLines(Tail(ls))

\* A word whose measured width exceeds the available width.
Overlong(word, width) ==
  LET m == MeasureTextWidth(word) IN ~m.err /\ m.w > width

\* C25: a call started at Y = y that emits n lines draws line k (k = 0..n-1)
\* at y + k*lineHeight and returns y + n*lineHeight; a text without words
\* emits no line and returns y.
WrapLinePositions ==
  call.done =>
    LET n == Len(call.lines)
    IN /\ \A k \in 1..n : call.lines[k].y = call.y + (k - 1) * call.lineHeight
       /\ call.ret = call.y + n * call.lineHeight
       /\ (\A k \in 1..Len(call.text) : IsSpace(call.text[k])) =>
            (n = 0 /\ call.ret = call.y)

WrapLinePositionsWitness ==
  /\ call.done
  /\ Len(call.lines) = 3
  /\ call.lines[3].y = call.y + 2 * call.lineHeight
  /\ call.ret = call.y + 3 * call.lineHeight

\* C5: the words of the lines emitted by writeMultilineText, read in order,
\* are exactly the whitespace-separated words of the input text, in order:
\* nothing is dropped, duplicated or reordered.
WrapKeepsWords ==
  call.done => WordsOfLines(LineTexts(call.lines)) = Fields(call.text)

\* C5 witness: a call that broke a text of three words into several lines.
WrapKeepsWordsWitness ==
  /\ pc = "wrap"
  /\ call.done
  /\ Len(Fields(call.text)) = 3
  /\ Len(call.lines) >= 2

\* C6 (as claimed): a word whose measured width exceeds the available width
\* is alone on its line, wherever it stands in the text.
OverlongWordAlone ==
  call.done =>
    \A k \in 1..Len(call.lines) :
      LET ws == Fields(call.lines[k].text)
      IN \A j \in 1..Len(ws) : Overlong(ws[j], call.width) => Len(ws) = 1

WrapLinesFit ==
  (call.done /\ ~MeasureTextWidth(call.text).err) =>
    /\ \A k \in 1..Len(call.lines) :
         LET line == call.lines[k].text
         IN Len(Fields(line)) > 1 => MeasureTextWidth(line).w <= call.width
    /\ \A k \in 1..(Len(call.lines) - 1) :
         LET testLine == call.lines[k].text \o <<" ">>
                           \o Fields(call.lines[k + 1].text)[1]
         IN MeasureTextWidth(testLine).w > call.width

WrapLinesFitWitness ==
  /\ call.done
  /\ ~MeasureTextWidth(call.text).err
  /\ Len(call.lines) = 2
  /\ Len(Fields(call.lines[1].text)) = 2
  /\ MeasureTextWidth(call.lines[1].text).w <= call.width

\* C8: a failed measurement does not stop the wrapping, and the comparison
\* uses 5 units per byte of the candidate line: a line of several words that
\* cannot be measured has 5 * bytes <= width, a break before a word whose
\* candidate line cannot be measured has 5 * bytes > width, and as many
\* words are emitted as the text has.
FallbackEstimate ==
  call.done =>
    /\ Len(WordsOfLines(LineTexts(call.lines))) = Len(Fields(call.text))
    /\ \A k \in 1..Len(call.lines) :
         LET line == call.lines[k].text
         IN (Len(Fields(line)) > 1 /\ MeasureTextWidth(line).err)
              => ByteLen(line) * 5 <= call.width
    /\ \A k \in 1..(Len(call.lines) - 1) :
         LET testLine == call.lines[k].text \o <<" ">>
                           \o Fields(call.lines[k + 1].text)[1]
         IN MeasureTextWidth(testLine).err => ByteLen(testLine) * 5 > call.width

\* C8 witness: a text with a rune the font lacks, where the estimate forced a
\* break although 5 per rune would have fitted.
FallbackEstimateWitness ==
  /\ pc = "wrap"
  /\ call.done
  /\ Len(call.lines) = 2
  /\ LET testLine == call.lines[1].text \o <<" ">> \o call.lines[2].text
     IN /\ MeasureTextWidth(testLine).err
        /\ Len(testLine) * 5 <= call.width
        /\ ByteLen(testLine) * 5 > call.width

====
